---------------------------- MODULE Spec2Model ----------------------------
(***************************************************************************)
(* A model of bookflux's layout re-flow engine (bookflux/layout_utils.py), *)
(* of its page-boundary mergers (layout_utils.py, pdf_utils.py,            *)
(* text_utils.py), of the extraction of lines, columns and blocks from the *)
(* words of a page, of the typography profile (layout_utils.py), of the   *)
(* formatting report (output_utils.py), of the retry loop of the providers *)
(* (providers/base.py), of the provider registry (providers/registry.py),  *)
(* of chunk_text (translator.py) and of the translation loops of main      *)
(* (cli.py).                                                               *)
(*                                                                         *)
(* Numbers.  The code computes in floating point; the model computes in    *)
(* exact integers:                                                         *)
(*   - a length or a font size is counted in 1/100 pt (9.0 pt = 900),      *)
(*   - a line-height ratio is counted in percent (1.05 = 105),             *)
(*   - a line height (font size * ratio) and the overflow cursor y are     *)
(*     therefore counted in 1/10000 pt.                                    *)
(* Rounding of single floating point operations is not modelled.           *)
(*                                                                         *)
(* Text.  For the fitter a text is the list text.splitlines() of its       *)
(* paragraphs, a paragraph is the list paragraph.split() of its words and  *)
(* a word is its number of characters.  A wrapped line is its number of    *)
(* characters (0 for the empty line "").  reportlab's stringWidth is       *)
(* modelled as a fixed half em per character.                              *)
(***************************************************************************)
EXTENDS Integers, Sequences, FiniteSets, TLC

VARIABLES
    fit,                \* the frame of one _fit_text_to_box call (stepwise)
    pages,              \* write_pdf_layout: argument pages
    page_sizes,         \* write_pdf_layout: argument page_sizes
    opts,               \* write_pdf_layout: the keyword arguments
    pc,                 \* write_pdf_layout: position in the function
    page_index,         \* write_pdf_layout: outer loop variable
    block_index,        \* write_pdf_layout: inner loop variable
    issues,             \* write_pdf_layout: local list issues
    overflow_entries,   \* write_pdf_layout: local list overflow_entries
    profile,            \* write_pdf_layout: local profile
    canvas,             \* the pages of the canvas c, the current page last
    report,             \* write_pdf_layout: the returned report
    hist,               \* history: what each inner loop body did to its block
    area_hist,          \* history: what the overflow area did to each entry
    merge_mode,         \* page-break merge: "blocks", "texts", or "idle"
    merge_doc,          \* page-break merge: the pages, as last returned
    merge_arg,          \* page-break merge: the argument of the last call,
                        \* as the call has left it
    merge_calls,        \* page-break merge: the calls made
    pair,               \* the frame of one should_merge_lines call
    ex,                 \* extract_layout_blocks: the loop body for one page
    typo,               \* the frame of one extract_typography_profile call
    ser,                \* write_formatting_report on two equal reports
    tr,                 \* the frame of one BaseProvider.translate call
    ck,                 \* the frame of one chunk_text call
    cli,                \* main: the translation loops and their budget
    reg                 \* the provider registry and the calls made on it

fitVars    == <<fit>>
layoutVars == <<pages, page_sizes, opts, pc, page_index, block_index,
                issues, overflow_entries, profile, canvas, report,
                hist, area_hist>>
mergeVars  == <<merge_mode, merge_doc, merge_arg, merge_calls>>
callVars   == <<tr, ck, cli, reg>>
unitVars   == <<pair, ex, typo, ser, callVars>>
vars       == <<fitVars, layoutVars, mergeVars, unitVars>>

\* no call of should_merge_lines, no page being extracted, no call of
\* extract_typography_profile, no report being written
NoPair == [pc |-> "idle", last_line |-> <<>>, next_line |-> <<>>,
           result |-> FALSE]
NoExtract == [pc |-> "idle", words |-> <<>>, page_width |-> 0,
              lines |-> <<>>, columns |-> <<>>, blocks |-> <<>>]
NoProfile == [pc |-> "idle", pages |-> <<>>,
              profile |-> [body_font_size |-> 0, heading_targets |-> <<>>]]
NoWrite == [pc |-> "idle", first |-> <<>>, second |-> <<>>,
            first_out |-> <<>>, second_out |-> <<>>]

\* no call of translate or of chunk_text, main not run, the registry not
\* in use
NoTranslate == [pc |-> "idle"]
NoChunk == [pc |-> "idle"]
NoMain == [pc |-> "idle"]
NoRegistry == [pc |-> "idle"]

CallIdle ==
    tr = NoTranslate /\ ck = NoChunk /\ cli = NoMain /\ reg = NoRegistry

TextIdle ==
    pair = NoPair /\ ex = NoExtract /\ typo = NoProfile /\ ser = NoWrite

UnitIdle == TextIdle /\ CallIdle

-----------------------------------------------------------------------------
(* Program constants, layout_utils.py lines 21-25 and 335.                  *)

MIN_READABLE_FONT_SIZE == 900
HEADING_SIZE_RATIO == 120
HEADING_TOLERANCE == 50
LINE_HEIGHT_MIN == 105
LINE_HEIGHT_MAX == 140
overflow_margin == 7200

\* font_size -= 0.5
SHRINK_STEP == 50

-----------------------------------------------------------------------------
(* Small helpers.                                                          *)

Max(a, b) == IF a >= b THEN a ELSE b
Min(a, b) == IF a <= b THEN a ELSE b

Range(s) == {s[i] : i \in 1..Len(s)}

\* lines[:n] and lines[n:] of a Python list
Take(s, n) == SubSeq(s, 1, Min(n, Len(s)))
Drop(s, n) == SubSeq(s, Min(n, Len(s)) + 1, Len(s))

\* Body applied to the value of v: the value is computed before Body is
\* entered, as an assignment in a loop body computes it before the next pass.
Bind(v, Body(_)) == CHOOSE r \in {Body(x) : x \in {v}} : TRUE

RECURSIVE Flatten(_)
Flatten(ss) == IF ss = <<>> THEN <<>> ELSE Head(ss) \o Flatten(Tail(ss))

-----------------------------------------------------------------------------
(* Wrapping: _split_word, _wrap_paragraph, _wrap_text.                     *)

\* stringWidth(s, font_name, font_size) <= max_width for a string s of n
\* characters; every glyph is half an em wide.
WidthFits(n, font_size, max_width) == n * font_size <= 2 * max_width

\* One pass of the character loop of _split_word: st.current is the length
\* of the part being built, st.parts the parts closed so far.
SplitChar(st, max_width, font_size) ==
    IF WidthFits(st.current + 1, font_size, max_width)
    THEN [st EXCEPT !.current = st.current + 1]
    ELSE [current |-> 1,
          parts |-> IF st.current > 0
                    THEN Append(st.parts, st.current)
                    ELSE st.parts]

RECURSIVE SplitChars(_, _, _, _)
SplitChars(left, st, max_width, font_size) ==
    IF left = 0
    THEN st
    ELSE Bind(SplitChar(st, max_width, font_size),
              LAMBDA s : SplitChars(left - 1, s, max_width, font_size))

\* the list a loop leaves: the closed items and the open one if any
Closed(items, current) ==
    IF current > 0 THEN Append(items, current) ELSE items

_split_word(word, max_width, font_size) ==
    IF WidthFits(word, font_size, max_width)
    THEN <<word>>
    ELSE Bind(SplitChars(word, [current |-> 0, parts |-> <<>>],
                         max_width, font_size),
              LAMBDA st : Closed(st.parts, st.current))

\* One pass of the inner loop of _wrap_paragraph: st.current is the length
\* of the line being built, st.lines the lines closed so far.
WrapPiece(piece, st, max_width, font_size) ==
    LET candidate == IF st.current > 0 THEN st.current + 1 + piece ELSE piece
    IN  IF WidthFits(candidate, font_size, max_width)
        THEN [st EXCEPT !.current = candidate]
        ELSE [current |-> piece,
              lines |-> IF st.current > 0
                        THEN Append(st.lines, st.current)
                        ELSE st.lines]

\* The inner loop, over the pieces of one word.
RECURSIVE WrapPieces(_, _, _, _)
WrapPieces(pieces, st, max_width, font_size) ==
    IF pieces = <<>>
    THEN st
    ELSE Bind(WrapPiece(Head(pieces), st, max_width, font_size),
              LAMBDA s : WrapPieces(Tail(pieces), s, max_width, font_size))

\* The outer loop, over the words.
RECURSIVE WrapWords(_, _, _, _)
WrapWords(words, st, max_width, font_size) ==
    IF words = <<>>
    THEN st
    ELSE Bind(Bind(_split_word(Head(words), max_width, font_size),
                   LAMBDA pieces : WrapPieces(pieces, st, max_width, font_size)),
              LAMBDA s : WrapWords(Tail(words), s, max_width, font_size))

_wrap_paragraph(words, max_width, font_size) ==
    IF words = <<>>
    THEN <<0>>
    ELSE Bind(WrapWords(words, [current |-> 0, lines |-> <<>>],
                        max_width, font_size),
              LAMBDA st : Closed(st.lines, st.current))

\* The loop of _wrap_text from paragraph i on; lines is the list so far.
RECURSIVE WrapParagraphs(_, _, _, _, _)
WrapParagraphs(text, i, lines, max_width, font_size) ==
    IF i > Len(text)
    THEN lines
    ELSE Bind(IF text[i] = <<>>
              THEN Append(lines, 0)
              ELSE lines \o _wrap_paragraph(text[i], max_width, font_size),
              LAMBDA ls : WrapParagraphs(text, i + 1, ls, max_width, font_size))

_wrap_text(text, max_width, font_size) ==
    WrapParagraphs(text, 1, <<>>, max_width, font_size)

-----------------------------------------------------------------------------
(* _fit_text_to_box, one step of the function at a time.  A frame is the   *)
(* arguments, the position fpc, the locals font_size and ratio_index (the  *)
(* position in the tuple (line_height_ratio, LINE_HEIGHT_MIN)), and the    *)
(* returned tuple once fpc = "ret".                                        *)

NoFit == [fpc |-> "idle"]

FitCall(text, max_width, max_height, base_size, min_size, line_height_ratio) ==
    [fpc |-> "call", text |-> text, max_width |-> max_width,
     max_height |-> max_height, base_size |-> base_size,
     min_size |-> min_size, line_height_ratio |-> line_height_ratio,
     font_size |-> 0, ratio_index |-> 1,
     lines |-> <<>>, line_height |-> 0, truncated |-> FALSE,
     scaled_down |-> FALSE, remaining |-> <<>>]

\* line 243
FitEnterStep(f) ==
    [f EXCEPT !.fpc = "loop", !.font_size = Max(f.base_size, f.min_size),
              !.ratio_index = 1]

\* a variant of CandidateRatio that takes the tight ratio first
CandidateRatioTightFirst(f) ==
    IF f.ratio_index = 1 THEN LINE_HEIGHT_MIN ELSE f.line_height_ratio

CandidateRatio(f) ==
    IF f.ratio_index = 1 THEN f.line_height_ratio ELSE LINE_HEIGHT_MIN

\* len(lines) * line_height <= max_height
HeightFits(n, line_height, max_height) == n * line_height <= max_height * 100

\* lines 246-251 for the wrapped lines and the line height of one
\* candidate (font_size, ratio)
TryCandidate(f, lines, line_height) ==
    IF HeightFits(Len(lines), line_height, f.max_height)
    THEN [f EXCEPT !.fpc = "ret", !.lines = lines,
                   !.line_height = line_height, !.truncated = FALSE,
                   !.scaled_down = (f.font_size < f.base_size),
                   !.remaining = <<>>]
    ELSE IF f.ratio_index = 1
         THEN [f EXCEPT !.ratio_index = 2, !.lines = lines,
                        !.line_height = line_height]
         ELSE [f EXCEPT !.font_size = f.font_size - SHRINK_STEP,
                        !.ratio_index = 1, !.line_height = line_height]

\* lines 244-251: one candidate; the text is wrapped when the loop body is
\* entered, that is before the first ratio
FitCandidateStep(f) ==
    Bind(IF f.ratio_index = 1
         THEN _wrap_text(f.text, f.max_width, f.font_size)
         ELSE f.lines,
         LAMBDA lines : TryCandidate(f, lines, f.font_size * CandidateRatio(f)))

\* lines 257-263 with lines[:max_lines + 1] kept
FallbackOneMore(f, lines, line_height, max_lines) ==
    [f EXCEPT !.fpc = "ret", !.font_size = f.min_size,
              !.lines = IF Len(lines) > max_lines + 1
                        THEN Take(lines, max_lines + 1) ELSE lines,
              !.line_height = line_height,
              !.truncated = (Len(lines) > max_lines + 1),
              !.scaled_down = (f.min_size < f.base_size),
              !.remaining = IF Len(lines) > max_lines + 1
                            THEN Drop(lines, max_lines + 1) ELSE <<>>]

\* lines 257-263 with the font size of the loop left as it is
FallbackLoopSize(f, lines, line_height, max_lines) ==
    [f EXCEPT !.fpc = "ret",
              !.lines = IF Len(lines) > max_lines
                        THEN Take(lines, max_lines) ELSE lines,
              !.line_height = line_height,
              !.truncated = (Len(lines) > max_lines),
              !.scaled_down = (f.font_size < f.base_size),
              !.remaining = IF Len(lines) > max_lines
                            THEN Drop(lines, max_lines) ELSE <<>>]

\* lines 257-263 once max_lines is known
FallbackResult(f, lines, line_height, max_lines) ==
    [f EXCEPT !.fpc = "ret", !.font_size = f.min_size,
              !.lines = IF Len(lines) > max_lines
                        THEN Take(lines, max_lines) ELSE lines,
              !.line_height = line_height,
              !.truncated = (Len(lines) > max_lines),
              !.scaled_down = (f.min_size < f.base_size),
              !.remaining = IF Len(lines) > max_lines
                            THEN Drop(lines, max_lines) ELSE <<>>]

\* lines 253-256; max_height // line_height raises ZeroDivisionError when
\* line_height is 0.0, and the call ends there
FitFallbackStep(f) ==
    IF f.min_size * LINE_HEIGHT_MIN = 0
    THEN [f EXCEPT !.fpc = "raise", !.font_size = f.min_size]
    ELSE Bind(_wrap_text(f.text, f.max_width, f.min_size),
              LAMBDA lines :
                  FallbackResult(f, lines, f.min_size * LINE_HEIGHT_MIN,
                      Max((f.max_height * 100)
                              \div (f.min_size * LINE_HEIGHT_MIN), 1)))

\* FitStep with the loop running one step further down
FitStepBelowMin(f) ==
    CASE f.fpc = "call" -> FitEnterStep(f)
      [] f.fpc = "loop" /\ f.font_size >= f.min_size - SHRINK_STEP ->
             FitCandidateStep(f)
      [] f.fpc = "loop" /\ f.font_size < f.min_size - SHRINK_STEP ->
             FitFallbackStep(f)

FitStep(f) ==
    CASE f.fpc = "call" -> FitEnterStep(f)
      [] f.fpc = "loop" /\ f.font_size >= f.min_size -> FitCandidateStep(f)
      [] f.fpc = "loop" /\ f.font_size < f.min_size -> FitFallbackStep(f)

\* FitStep taken until the call has ended, and at most 2^n times
RECURSIVE FitSteps(_, _)
FitSteps(f, n) ==
    IF f.fpc \in {"ret", "raise"}
    THEN f
    ELSE IF n = 0
         THEN FitStep(f)
         ELSE Bind(FitSteps(f, n - 1), LAMBDA g : FitSteps(g, n - 1))

\* The whole call: the frame at its return or at its raise.  From a
\* font_size of s the loop has at most s / SHRINK_STEP + 1 passes of two
\* candidates each.
FitRun(f) == FitSteps(f, 8)

_fit_text_to_box(text, max_width, max_height, base_size, min_size, line_height_ratio) ==
    FitRun(FitCall(text, max_width, max_height, base_size, min_size,
                   line_height_ratio))

-----------------------------------------------------------------------------
(* Typography profile: _median, _cluster_sizes, _infer_body_font_size,     *)
(* _match_heading_target, extract_typography_profile.                      *)

NonZero(v) == v # 0

SortedSizes(sizes) == SortSeq(sizes, LAMBDA a, b : a < b)

\* statistics.median of a non-empty list; the mean of the two middle values
\* is exact for the sizes used here (multiples of 10).
StatMedian(values) ==
    LET s == SortedSizes(values)
        n == Len(s)
    IN  IF n % 2 = 1
        THEN s[(n + 1) \div 2]
        ELSE (s[n \div 2] + s[n \div 2 + 1]) \div 2

_median(values, default) ==
    LET values_list == SelectSeq(values, NonZero)
    IN  IF values_list = <<>> THEN default ELSE StatMedian(values_list)

\* x * HEADING_SIZE_RATIO, exact for the multiples of 5 used here
TimesHeadingRatio(x) == (x * HEADING_SIZE_RATIO) \div 100

RECURSIVE ClusterLoop(_, _, _)
ClusterLoop(rest, clusters, tolerance) ==
    IF rest = <<>>
    THEN clusters
    ELSE LET size == Head(rest)
             n == Len(clusters)
             tail == clusters[n]
         IN  IF size - tail[Len(tail)] <= tolerance
             THEN ClusterLoop(Tail(rest),
                              [clusters EXCEPT ![n] = Append(tail, size)],
                              tolerance)
             ELSE ClusterLoop(Tail(rest), Append(clusters, <<size>>), tolerance)

\* a variant of _cluster_sizes in which every size is a cluster of its own
ClusterEachSize(sizes, tolerance) ==
    [i \in 1..Len(sizes) |-> << SortedSizes(sizes)[i] >>]

_cluster_sizes(sizes, tolerance) ==
    IF sizes = <<>>
    THEN <<>>
    ELSE LET sorted_sizes == SortedSizes(sizes)
         IN  ClusterLoop(Tail(sorted_sizes), << <<Head(sorted_sizes)>> >>, tolerance)

\* a variant of _infer_body_font_size that always takes the median
InferBodyAlwaysMedian(sizes, default) ==
    IF sizes = <<>> THEN default ELSE _median(SortedSizes(sizes), default)

_infer_body_font_size(sizes, default) ==
    IF sizes = <<>>
    THEN default
    ELSE LET sorted_sizes == SortedSizes(sizes)
             min_size == sorted_sizes[1]
             max_size == sorted_sizes[Len(sorted_sizes)]
         IN  IF min_size > 0 /\ max_size * 100 >= min_size * HEADING_SIZE_RATIO
             THEN min_size
             ELSE _median(sorted_sizes, default)

Abs(x) == IF x < 0 THEN -x ELSE x

\* min(targets, key=...) returns the first of the closest targets
_match_heading_target(size, targets, tolerance) ==
    IF targets = <<>>
    THEN size
    ELSE LET i == CHOOSE i \in 1..Len(targets) :
                      /\ \A j \in 1..Len(targets) :
                             Abs(targets[i] - size) <= Abs(targets[j] - size)
                      /\ \A j \in 1..(i - 1) :
                             Abs(targets[j] - size) > Abs(targets[i] - size)
             closest == targets[i]
         IN  IF Abs(closest - size) <= tolerance THEN closest ELSE size

\* block.font_size for page in pages for block in page
AllFontSizes(pgs) ==
    Flatten([p \in 1..Len(pgs) |->
                 [b \in 1..Len(pgs[p]) |-> pgs[p][b].font_size]])

\* a variant of extract_typography_profile that clusters every size
ProfileAllSizes(pgs) ==
    LET sizes == SelectSeq(AllFontSizes(pgs), NonZero)
        body_size == _infer_body_font_size(sizes, 1100)
        clusters == _cluster_sizes(sizes, HEADING_TOLERANCE)
    IN  [body_font_size |-> body_size,
         heading_targets |-> [c \in 1..Len(clusters) |->
                                 _median(clusters[c], clusters[c][1])]]

extract_typography_profile(pgs) ==
    LET sizes == SelectSeq(AllFontSizes(pgs), NonZero)
        body_size == _infer_body_font_size(sizes, 1100)
        heading_threshold == TimesHeadingRatio(body_size)
        heading_sizes ==
            SelectSeq(AllFontSizes(pgs), LAMBDA v : v >= heading_threshold)
        clusters == _cluster_sizes(heading_sizes, HEADING_TOLERANCE)
        targets == [c \in 1..Len(clusters) |->
                        Max(_median(clusters[c], clusters[c][1]),
                            heading_threshold)]
    IN  [body_font_size |-> body_size, heading_targets |-> targets]

-----------------------------------------------------------------------------
(* write_pdf_layout: the parts of the inner loop body.                     *)

FormattingIssue(page_number, issue_type, description, severity) ==
    [page_number |-> page_number, issue_type |-> issue_type,
     description |-> description, severity |-> severity]

\* not block.text.strip()
IsBlankText(text) == \A i \in 1..Len(text) : text[i] = <<>>

\* line 333
HeadingMinSize(o, prof) ==
    Max(o.min_font_size, TimesHeadingRatio(prof.body_font_size))

\* lines 344-351: the box of block number i (from 1) of blocks
BoxWidth(block) == Max(block.x1 - block.x0, 100)
BoxHeight(block) == Max(block.bottom - block.top, 100)

OverflowHeight(blocks, i, o) ==
    LET box_height == BoxHeight(blocks[i])
    IN  IF i < Len(blocks)
        THEN LET gap == Max(blocks[i + 1].top - blocks[i].bottom, 0)
             IN  IF gap > 100
                 THEN box_height + gap + Max(o.overflow_extra, 0)
                 ELSE box_height
        ELSE box_height

\* block.font_size >= profile.body_font_size * HEADING_SIZE_RATIO
IsHeading(block, prof) ==
    block.font_size * 100 >= prof.body_font_size * HEADING_SIZE_RATIO

\* lines 352-360 without the heading floor on min_size
ResolveSizesNoFloor(block, o, prof) ==
    [base_size |-> _match_heading_target(block.font_size, prof.heading_targets,
                                         HEADING_TOLERANCE),
     min_size |-> o.min_font_size]

\* lines 352-360
ResolveSizes(block, o, prof) ==
    LET matched == _match_heading_target(block.font_size, prof.heading_targets,
                                         HEADING_TOLERANCE)
    IN  IF IsHeading(block, prof)
        THEN [base_size |-> Max(matched, HeadingMinSize(o, prof)),
              min_size |-> HeadingMinSize(o, prof)]
        ELSE [base_size |-> matched, min_size |-> o.min_font_size]

\* lines 377-385: the routing of the leftover of r, the last fit made
RouteLeftover(r, retried, sz, box_height, overflow_height, o) ==
    IF r.fpc = "raise"
    THEN [raised |-> TRUE, base_size |-> sz.base_size, min_size |-> sz.min_size]
    ELSE
    [raised |-> FALSE, base_size |-> sz.base_size, min_size |-> sz.min_size,
     box_height |-> box_height, overflow_height |-> overflow_height,
     font_size |-> r.font_size, lines |-> r.lines,
     line_height |-> r.line_height, remaining |-> r.remaining,
     scaled_down |-> r.scaled_down, fit_truncated |-> r.truncated,
     retried |-> retried,
     queued |-> (r.truncated /\ o.allow_page_overflow /\ r.remaining # <<>>),
     overflow_used |-> (retried \/ (r.truncated /\ o.allow_page_overflow
                                        /\ r.remaining # <<>>)),
     truncated |-> (r.truncated /\ ~(o.allow_page_overflow
                                        /\ r.remaining # <<>>))]

\* lines 364-376: the retry against the gap when the first fit truncated
RetryInGap(first, block, sz, box_height, overflow_height, o) ==
    IF first.fpc = "ret" /\ first.truncated /\ overflow_height > box_height
    THEN Bind(_fit_text_to_box(block.text, BoxWidth(block), overflow_height,
                               sz.base_size, sz.min_size, o.line_height_ratio),
              LAMBDA r : RouteLeftover(r, TRUE, sz, box_height,
                                       overflow_height, o))
    ELSE RouteLeftover(first, FALSE, sz, box_height, overflow_height, o)

\* lines 361-363: the first fit, against the box
FitInBox(block, sz, box_height, overflow_height, o) ==
    Bind(_fit_text_to_box(block.text, BoxWidth(block), box_height,
                          sz.base_size, sz.min_size, o.line_height_ratio),
         LAMBDA first : RetryInGap(first, block, sz, box_height,
                                   overflow_height, o))

\* lines 344-385 for block number i (from 1) of blocks
FitBlock(blocks, i, o, prof) ==
    Bind(ResolveSizes(blocks[i], o, prof),
         LAMBDA sz : FitInBox(blocks[i], sz, BoxHeight(blocks[i]),
                              OverflowHeight(blocks, i, o), o))

\* lines 386-412 with a truncation issue for every gap retry as well
BlockIssuesRetryTruncates(page_index_, p) ==
    (IF p.overflow_used
     THEN << FormattingIssue(page_index_ + 1, "overflow_used",
                 "Text overflowed into available vertical gap.", "low") >>
     ELSE <<>>)
    \o
    (IF p.truncated \/ p.retried
     THEN << FormattingIssue(page_index_ + 1, "truncation",
                 "Text truncated to fit layout block.", "high") >>
     ELSE <<>>)
    \o
    (IF p.scaled_down
     THEN << FormattingIssue(page_index_ + 1, "font_scaled_down",
                 "Font size reduced to fit layout block.", "medium") >>
     ELSE <<>>)

\* lines 386-412 with font_scaled_down also at the base size
BlockIssuesScaledAtBase(page_index_, p) ==
    (IF p.overflow_used
     THEN << FormattingIssue(page_index_ + 1, "overflow_used",
                 "Text overflowed into available vertical gap.", "low") >>
     ELSE <<>>)
    \o
    (IF p.truncated
     THEN << FormattingIssue(page_index_ + 1, "truncation",
                 "Text truncated to fit layout block.", "high") >>
     ELSE <<>>)
    \o
    (IF p.font_size <= p.base_size
     THEN << FormattingIssue(page_index_ + 1, "font_scaled_down",
                 "Font size reduced to fit layout block.", "medium") >>
     ELSE <<>>)

\* lines 386-412 with font_scaled_down appended before truncation
BlockIssuesScaledFirst(page_index_, p) ==
    (IF p.overflow_used
     THEN << FormattingIssue(page_index_ + 1, "overflow_used",
                 "Text overflowed into available vertical gap.", "low") >>
     ELSE <<>>)
    \o
    (IF p.scaled_down
     THEN << FormattingIssue(page_index_ + 1, "font_scaled_down",
                 "Font size reduced to fit layout block.", "medium") >>
     ELSE <<>>)
    \o
    (IF p.truncated
     THEN << FormattingIssue(page_index_ + 1, "truncation",
                 "Text truncated to fit layout block.", "high") >>
     ELSE <<>>)

\* lines 386-412
BlockIssues(page_index_, p) ==
    (IF p.overflow_used
     THEN << FormattingIssue(page_index_ + 1, "overflow_used",
                 "Text overflowed into available vertical gap.", "low") >>
     ELSE <<>>)
    \o
    (IF p.truncated
     THEN << FormattingIssue(page_index_ + 1, "truncation",
                 "Text truncated to fit layout block.", "high") >>
     ELSE <<>>)
    \o
    (IF p.scaled_down
     THEN << FormattingIssue(page_index_ + 1, "font_scaled_down",
                 "Font size reduced to fit layout block.", "medium") >>
     ELSE <<>>)

\* line 383 with the base size queued in place of the fitted size
OverflowEntryBaseSize(p, block, blk) ==
    [lines |-> p.remaining, font_size |-> p.base_size,
     line_height |-> p.line_height, x0 |-> block.x0, blk |-> blk]

\* line 383; blk names the block the entry came from (history)
OverflowEntry(p, block, blk) ==
    [lines |-> p.remaining, font_size |-> p.font_size,
     line_height |-> p.line_height, x0 |-> block.x0, blk |-> blk]

\* lines 413-418 and 425-439: the lines one setFont and its drawString loop
\* place, the first at y; a line "" is skipped but takes its line height.
DrawGroup(area, blk, x, y, font_size, line_height, lines) ==
    [area |-> area, blk |-> blk, x |-> x, y |-> y, font_size |-> font_size,
     line_height |-> line_height, lines |-> lines]

\* c.drawString calls land on the current page
DrawOn(cv, group) == [cv EXCEPT ![Len(cv)] = Append(cv[Len(cv)], group)]

\* c.showPage()
ShowPage(cv) == Append(cv, <<>>)

-----------------------------------------------------------------------------
(* write_pdf_layout: the overflow area, lines 420-439.                     *)

\* The inner loop over the lines of one entry: how many lines are drawn
\* from y (in 1/10000 pt) before the area runs out.
RECURSIVE AreaLines(_, _, _, _)
AreaLines(left, y, line_height, drawn) ==
    IF left = 0
    THEN [drawn |-> drawn, y |-> y, cut |-> FALSE]
    ELSE IF y - line_height < overflow_margin * 100
         THEN [drawn |-> drawn, y |-> y, cut |-> TRUE]
         ELSE AreaLines(left - 1, y - line_height, line_height, drawn + 1)

AreaIssue(page_index_) ==
    FormattingIssue(page_index_ + 1, "truncation",
                    "Text truncated after page overflow.", "high")

\* The loop over the entries.  acc carries y, the groups drawn, the issues
\* appended and the history of the entries done.
RECURSIVE AreaLoop(_, _, _, _)
AreaLoop(entries, page_index_, n_issues, acc) ==
    IF entries = <<>>
    THEN acc
    ELSE LET e == Head(entries)
             res == AreaLines(Len(e.lines), acc.y, e.line_height, 0)
             new_issues == IF res.cut
                           THEN Append(acc.issues, AreaIssue(page_index_))
                           ELSE acc.issues
         IN  AreaLoop(Tail(entries), page_index_, n_issues,
                 [y |-> res.y,
                  groups |-> Append(acc.groups,
                                 DrawGroup("overflow", e.blk, e.x0,
                                           acc.y, e.font_size, e.line_height,
                                           Take(e.lines, res.drawn))),
                  issues |-> new_issues,
                  hist |-> Append(acc.hist,
                               [blk |-> e.blk, drawn |-> res.drawn,
                                dropped |-> Len(e.lines) - res.drawn,
                                issue |-> IF res.cut
                                          THEN n_issues + Len(new_issues)
                                          ELSE 0])])

OverflowArea(entries, page_index_, height, n_issues) ==
    AreaLoop(entries, page_index_, n_issues,
             [y |-> (height - overflow_margin) * 100, groups |-> <<>>,
              issues |-> <<>>, hist |-> <<>>])

RECURSIVE DrawAll(_, _)
DrawAll(cv, groups) ==
    IF groups = <<>> THEN cv ELSE DrawAll(DrawOn(cv, Head(groups)), Tail(groups))

\* lines 314-318
_build_summary(iss) ==
    [t \in {iss[i].issue_type : i \in 1..Len(iss)} |->
         Cardinality({i \in 1..Len(iss) : iss[i].issue_type = t})]

-----------------------------------------------------------------------------
(* Sample inputs.                                                          *)

\* Texts as lists of paragraphs of word lengths: the empty text, a blank
\* line, one short word, a sentence, a text with a blank line in it, one
\* long word, a longer sentence, and three words of which two are one line
\* of 50 pt at 9.0 pt and two lines at 9.2 pt.
Sentence == <<4, 2, 1, 4, 8>>
Paragraphs == << Sentence, <<>>, <<4, 6, 5>>, Sentence >>
Texts ==
    { <<>>,
      << <<>> >>,
      << <<2>> >>,
      << <<4, 6, 5>> >>,
      << Sentence >>,
      << <<4>>, <<>>, <<5, 3>> >>,
      << <<30>> >>,
      Paragraphs }

FitWidths == {1000, 5000}
FitHeights == {100, 1000, 2500, 4000}
FitBaseSizes == {130, 800, 1000, 1200, 1420}
FitMinSizes == {0, 900, 1320}
FitRatios == {120, 140}

-----------------------------------------------------------------------------
(* Specification SpecFit: one call of _fit_text_to_box on sample           *)
(* arguments, a step at a time.                                            *)

LayoutIdle ==
    /\ pages = <<>>
    /\ page_sizes = <<>>
    /\ opts = [min_font_size |-> MIN_READABLE_FONT_SIZE,
               line_height_ratio |-> LINE_HEIGHT_MAX,
               allow_page_overflow |-> FALSE, overflow_extra |-> 0]
    /\ pc = "idle"
    /\ page_index = 0
    /\ block_index = 0
    /\ issues = <<>>
    /\ overflow_entries = <<>>
    /\ profile = [body_font_size |-> 0, heading_targets |-> <<>>]
    /\ canvas = <<>>
    /\ report = <<>>
    /\ hist = <<>>
    /\ area_hist = <<>>

MergeIdle ==
    /\ merge_mode = "idle"
    /\ merge_doc = <<>>
    /\ merge_arg = <<>>
    /\ merge_calls = 0

InitFit ==
    /\ \E text \in Texts, max_width \in FitWidths, max_height \in FitHeights,
          base_size \in FitBaseSizes, min_size \in FitMinSizes,
          line_height_ratio \in FitRatios :
          fit = FitCall(text, max_width, max_height, base_size, min_size,
                        line_height_ratio)
    /\ LayoutIdle
    /\ MergeIdle
    /\ UnitIdle

FitEnter ==
    /\ pc = "idle"
    /\ fit.fpc = "call"
    /\ fit' = FitStep(fit)
    /\ UNCHANGED <<layoutVars, mergeVars, unitVars>>

\* the loop body without font_size -= 0.5
FitCandidateNoShrink ==
    /\ pc = "idle"
    /\ fit.fpc = "loop"
    /\ fit.font_size >= fit.min_size
    /\ fit' = [FitStep(fit) EXCEPT !.font_size = fit.font_size]
    /\ UNCHANGED <<layoutVars, mergeVars, unitVars>>

FitCandidate ==
    /\ pc = "idle"
    /\ fit.fpc = "loop"
    /\ fit.font_size >= fit.min_size
    /\ fit' = FitStep(fit)
    /\ UNCHANGED <<layoutVars, mergeVars, unitVars>>

FitFallback ==
    /\ pc = "idle"
    /\ fit.fpc = "loop"
    /\ fit.font_size < fit.min_size
    /\ fit' = FitStep(fit)
    /\ UNCHANGED <<layoutVars, mergeVars, unitVars>>

NextFit == FitEnter \/ FitCandidate \/ FitFallback

SpecFit == InitFit /\ [][NextFit]_vars

-----------------------------------------------------------------------------
(* Sample documents for write_pdf_layout.                                  *)

\* the pages of a document and its blocks (over all pages) at most
MaxPages == 2
MaxBlocks == 2

\* a blank text, a sentence, four paragraphs
LayoutTexts == { << <<>> >>, << Sentence >>, Paragraphs }

\* [x0, x1, top, bottom]: a box too low for a line and, 29 pt below it, a
\* taller one
Boxes ==
    { [x0 |-> 7200, x1 |-> 12200, top |-> 10000, bottom |-> 10100],
      [x0 |-> 9000, x1 |-> 14000, top |-> 13000, bottom |-> 17000] }

FontSizes == {830, 1250}

\* min_font_size: none, and the default
MinFontSizes == {0, MIN_READABLE_FONT_SIZE}

BlockSet ==
    { [text |-> t, x0 |-> bx.x0, x1 |-> bx.x1, top |-> bx.top,
       bottom |-> bx.bottom, font_size |-> f] :
          t \in LayoutTexts, bx \in Boxes, f \in FontSizes }

\* page heights: room for one overflow line, and room for all
PageHeights == {16000, 79200}
PageWidths == {61200}

\* extract_layout_blocks sorts the blocks of a page by (top, x0)
SortedPage(blocks) ==
    \A i \in 1..(Len(blocks) - 1) :
        \/ blocks[i].top < blocks[i + 1].top
        \/ blocks[i].top = blocks[i + 1].top /\ blocks[i].x0 <= blocks[i + 1].x0

FitIdle == fit = NoFit

\* The state at line 337: the canvas made, the profile computed, no issue.
InitLayout ==
    /\ \E n \in 1..MaxPages, k \in 0..MaxBlocks :
         \E flat \in [1..k -> BlockSet], on_page \in [1..k -> 1..n] :
            /\ \A i \in 1..(k - 1) : on_page[i] <= on_page[i + 1]
            /\ pages = [p \in 1..n |->
                           [j \in 1..Cardinality({i \in 1..k : on_page[i] = p}) |->
                              flat[Cardinality({i \in 1..k : on_page[i] < p}) + j]]]
            /\ \A p \in 1..n : SortedPage(pages[p])
            /\ \E height \in PageHeights :
                  \E width \in PageWidths :
                     page_sizes = [p \in 1..n |-> <<width, height>>]
    /\ \E allow \in BOOLEAN, extra \in {0, 2000}, min_font_size \in MinFontSizes :
          opts = [min_font_size |-> min_font_size,
                  line_height_ratio |-> LINE_HEIGHT_MAX,
                  allow_page_overflow |-> allow, overflow_extra |-> extra]
    /\ profile = extract_typography_profile(pages)
    /\ pc = "page"
    /\ page_index = 0
    /\ block_index = 0
    /\ issues = <<>>
    /\ overflow_entries = <<>>
    /\ canvas = << <<>> >>
    /\ report = <<>>
    /\ hist = <<>>
    /\ area_hist = <<>>
    /\ FitIdle
    /\ MergeIdle
    /\ UnitIdle

-----------------------------------------------------------------------------
(* write_pdf_layout, one loop body at a time.  page_index and block_index  *)
(* count from 0 as in the code; sequences are indexed from 1.              *)

\* lines 337-340: the outer loop takes the next page
BeginPage ==
    /\ pc = "page"
    /\ page_index < Len(pages)
    /\ overflow_entries' = <<>>
    /\ block_index' = 0
    /\ pc' = "block"
    /\ UNCHANGED <<pages, page_sizes, opts, page_index, issues, profile,
                   canvas, report, hist, area_hist>>
    /\ UNCHANGED <<fitVars, mergeVars, unitVars>>

\* lines 383-418 for a block whose fit is p and whose issues are added
PlaceBlock(block, blk, height, p, added) ==
    /\ overflow_entries' =
           IF p.queued
           THEN Append(overflow_entries, OverflowEntry(p, block, blk))
           ELSE overflow_entries
    /\ issues' = issues \o added
    /\ canvas' = DrawOn(canvas,
           DrawGroup("box", blk, block.x0,
                     (height - block.top - p.font_size) * 100,
                     p.font_size, p.line_height, p.lines))
    /\ hist' = Append(hist,
           [blk |-> blk, block |-> block, plan |-> p,
            issues_from |-> Len(issues) + 1,
            issues_to |-> Len(issues) + Len(added)])

\* an exception of the fitter leaves write_pdf_layout: nothing is returned
FitAndPlace(block, blk, height, p) ==
    IF p.raised
    THEN /\ pc' = "raised"
         /\ UNCHANGED <<issues, overflow_entries, canvas, hist, block_index>>
    ELSE /\ PlaceBlock(block, blk, height, p, BlockIssues(blk[1], p))
         /\ block_index' = block_index + 1
         /\ UNCHANGED pc

\* lines 341-418: one pass of the inner loop body
ProcessBlock ==
    /\ pc = "block"
    /\ block_index < Len(pages[page_index + 1])
    /\ IF IsBlankText(pages[page_index + 1][block_index + 1].text)
       THEN /\ block_index' = block_index + 1
            /\ UNCHANGED <<issues, overflow_entries, canvas, hist, pc>>
       ELSE \E p \in {FitBlock(pages[page_index + 1], block_index + 1,
                                opts, profile)} :
               FitAndPlace(pages[page_index + 1][block_index + 1],
                           <<page_index, block_index>>,
                           page_sizes[page_index + 1][2], p)
    /\ UNCHANGED <<pages, page_sizes, opts, page_index, profile, report,
                   area_hist>>
    /\ UNCHANGED <<fitVars, mergeVars, unitVars>>

\* lines 420-442: the overflow area of the page and the page break
EndPage ==
    /\ pc = "block"
    /\ block_index = Len(pages[page_index + 1])
    /\ \E area \in {OverflowArea(overflow_entries, page_index,
                                  page_sizes[page_index + 1][2], Len(issues))} :
          /\ issues' = issues \o area.issues
          /\ area_hist' = area_hist \o area.hist
          /\ \E drawn \in {IF overflow_entries # <<>>
                            THEN DrawAll(ShowPage(canvas), area.groups)
                            ELSE canvas} :
                canvas' = IF page_index < Len(pages) - 1
                          THEN ShowPage(drawn)
                          ELSE drawn
    /\ page_index' = page_index + 1
    /\ pc' = "page"
    /\ UNCHANGED <<pages, page_sizes, opts, block_index, overflow_entries,
                   profile, report, hist>>
    /\ UNCHANGED <<fitVars, mergeVars, unitVars>>

\* lines 444-446
Save ==
    /\ pc = "page"
    /\ page_index = Len(pages)
    /\ report' = [run_id |-> "out", issues |-> issues,
                  summary |-> _build_summary(issues)]
    /\ pc' = "done"
    /\ UNCHANGED <<pages, page_sizes, opts, page_index, block_index, issues,
                   overflow_entries, profile, canvas, hist, area_hist>>
    /\ UNCHANGED <<fitVars, mergeVars, unitVars>>

NextLayout == BeginPage \/ ProcessBlock \/ EndPage \/ Save

-----------------------------------------------------------------------------
(* Specification Spec: a call of _fit_text_to_box on sample arguments or a *)
(* call of write_pdf_layout on a sample document.                          *)

Init == InitFit \/ InitLayout

Next == FitEnter \/ FitCandidate \/ FitFallback
            \/ BeginPage \/ ProcessBlock \/ EndPage \/ Save

Spec == Init /\ [][Next]_vars

\* Both functions are sequential code: a step that can be taken is taken.
FairSpec == Spec /\ WF_vars(Next)

-----------------------------------------------------------------------------
(* Strings of the page-break merge.  A string is a sequence of characters, *)
(* a character a string of length one; "\n" is the only line break and     *)
(* " " the only other white space in the strings used here.                *)

Lower == {"a", "b", "c", "d", "e", "f", "g", "h", "i", "j", "k", "l", "m",
          "n", "o", "p", "q", "r", "s", "t", "u", "v", "w", "x", "y", "z"}
Upper == {"A", "B", "C", "D", "E", "F", "G", "H", "I", "J", "K", "L", "M",
          "N", "O", "P", "Q", "R", "S", "T", "U", "V", "W", "X", "Y", "Z"}
Digits == {"0", "1", "2", "3", "4", "5", "6", "7", "8", "9"}
Whitespace == {" ", "\n"}

\* the first and the last index of s whose character is not in chars;
\* Len(s) + 1 and 0 when there is none
FirstNotIn(s, chars) ==
    IF \E i \in 1..Len(s) : s[i] \notin chars
    THEN CHOOSE i \in 1..Len(s) :
            /\ s[i] \notin chars
            /\ \A j \in 1..(i - 1) : s[j] \in chars
    ELSE Len(s) + 1

\* the first index of s whose character is in chars; Len(s) + 1 when there
\* is none
FirstIn(s, chars) ==
    IF \E i \in 1..Len(s) : s[i] \in chars
    THEN CHOOSE i \in 1..Len(s) :
            /\ s[i] \in chars
            /\ \A j \in 1..(i - 1) : s[j] \notin chars
    ELSE Len(s) + 1

LastNotIn(s, chars) ==
    IF \E i \in 1..Len(s) : s[i] \notin chars
    THEN CHOOSE i \in 1..Len(s) :
            /\ s[i] \notin chars
            /\ \A j \in (i + 1)..Len(s) : s[j] \in chars
    ELSE 0

\* str.lstrip(chars), str.rstrip(chars), str.strip(chars)
LStripChars(s, chars) == SubSeq(s, FirstNotIn(s, chars), Len(s))
RStripChars(s, chars) == SubSeq(s, 1, LastNotIn(s, chars))
StripChars(s, chars) == LStripChars(RStripChars(s, chars), chars)

\* str.lstrip(), str.rstrip(), str.strip()
LStrip(s) == LStripChars(s, Whitespace)
RStrip(s) == RStripChars(s, Whitespace)
Strip(s) == StripChars(s, Whitespace)

\* str.endswith("-")
EndsWithHyphen(s) == s # <<>> /\ s[Len(s)] = "-"

\* str.split("\n"): the pieces between the line breaks, "" included
RECURSIVE SplitNewline(_)
SplitNewline(s) ==
    IF \E i \in 1..Len(s) : s[i] = "\n"
    THEN << SubSeq(s, 1, FirstIn(s, {"\n"}) - 1) >>
         \o SplitNewline(SubSeq(s, FirstIn(s, {"\n"}) + 1, Len(s)))
    ELSE << s >>

\* str.splitlines(): as split("\n") without the piece after a final line
\* break, and no piece at all for ""
DropLastIfEmpty(parts) ==
    IF parts[Len(parts)] = <<>> THEN SubSeq(parts, 1, Len(parts) - 1) ELSE parts

SplitLines(s) == DropLastIfEmpty(SplitNewline(s))

\* "\n".join(lines)
RECURSIVE JoinNewline(_)
JoinNewline(lines) ==
    IF lines = <<>>
    THEN <<>>
    ELSE IF Len(lines) = 1
         THEN lines[1]
         ELSE lines[1] \o <<"\n">> \o JoinNewline(Tail(lines))

\* "\n".join(lines).strip("\n")
JoinStripped(lines) == StripChars(JoinNewline(lines), {"\n"})

\* len(line.split()): the number of maximal runs without white space
WordCount(s) ==
    Cardinality({i \in 1..Len(s) :
                    /\ s[i] \notin Whitespace
                    /\ (i = 1 \/ s[i - 1] \in Whitespace)})

\* del lines[idx]
RemoveAt(lines, idx) ==
    SubSeq(lines, 1, idx - 1) \o SubSeq(lines, idx + 1, Len(lines))

-----------------------------------------------------------------------------
(* text_utils                                                              *)

\* looks_like_page_number
looks_like_page_number(line) ==
    /\ Strip(line) # <<>>
    /\ StripChars(Strip(line), {" ", "-"}) # <<>>
    /\ \A i \in 1..Len(StripChars(Strip(line), {" ", "-"})) :
          StripChars(Strip(line), {" ", "-"})[i] \in Digits
    /\ Len(StripChars(Strip(line), {" ", "-"})) <= 4

\* _ends_sentence for the stripped line
EndsSentenceClean(clean) ==
    /\ clean # <<>>
    /\ \/ clean[Len(clean)] \in {".", "!", "?"}
       \/ /\ Len(clean) >= 2
          /\ clean[Len(clean)] \in {"\"", "'", ")", "]"}
          /\ clean[Len(clean) - 1] \in {".", "!", "?"}

_ends_sentence(line) == EndsSentenceClean(Strip(line))

\* a variant that looks at the first character only
StartsLowerFirstChar(line) == line # <<>> /\ line[1] \in Lower

\* _starts_with_lowercase: the first letter, if any, is lower case
_starts_with_lowercase(line) ==
    /\ FirstIn(line, Lower \cup Upper) <= Len(line)
    /\ line[FirstIn(line, Lower \cup Upper)] \in Lower

\* _looks_like_heading
_looks_like_heading(line) ==
    /\ Cardinality({i \in 1..Len(line) : line[i] \in Lower \cup Upper}) >= 4
    /\ \A i \in 1..Len(line) : line[i] \notin Lower
    /\ WordCount(line) <= 8

\* a variant that tries the hyphen rule before the guards
ShouldMergeHyphenFirst(last_line, next_line) ==
    IF EndsWithHyphen(last_line)
    THEN TRUE
    ELSE IF looks_like_page_number(last_line) \/ looks_like_page_number(next_line)
         THEN FALSE
         ELSE IF _looks_like_heading(last_line) \/ _looks_like_heading(next_line)
              THEN FALSE
              ELSE IF _starts_with_lowercase(next_line)
                   THEN TRUE
                   ELSE ~_ends_sentence(last_line)

\* should_merge_lines
should_merge_lines(last_line, next_line) ==
    IF looks_like_page_number(last_line) \/ looks_like_page_number(next_line)
    THEN FALSE
    ELSE IF _looks_like_heading(last_line) \/ _looks_like_heading(next_line)
         THEN FALSE
         ELSE IF EndsWithHyphen(last_line)
              THEN TRUE
              ELSE IF _starts_with_lowercase(next_line)
                   THEN TRUE
                   ELSE ~_ends_sentence(last_line)

\* a variant that joins without the space
MergeLinesNoSpace(last_line, next_line) ==
    IF EndsWithHyphen(last_line)
    THEN SubSeq(last_line, 1, Len(last_line) - 1) \o LStrip(next_line)
    ELSE last_line \o next_line

\* merge_lines
merge_lines(last_line, next_line) ==
    IF EndsWithHyphen(last_line)
    THEN SubSeq(last_line, 1, Len(last_line) - 1) \o LStrip(next_line)
    ELSE last_line \o <<" ">> \o next_line

\* clean.split(None, 1) for a clean that starts with a token: the token and
\* what follows the white space after it ("" when nothing does)
FirstTokenOf(clean) ==
    << SubSeq(clean, 1, FirstIn(clean, Whitespace) - 1),
       LStrip(SubSeq(clean, FirstIn(clean, Whitespace), Len(clean))) >>

\* a variant that takes the whole line as the fragment
SplitWholeLine(line) == << LStrip(line), <<>> >>

\* split_first_token: <<fragment, remainder>>
split_first_token(line) ==
    IF LStrip(line) = <<>> THEN << <<>>, <<>> >> ELSE FirstTokenOf(LStrip(line))

\* first_non_empty_index and last_non_empty_index, and the same two of
\* pdf_utils; indexes count from 1 and 0 stands for None
first_non_empty_index(lines) ==
    IF \E i \in 1..Len(lines) : Strip(lines[i]) # <<>>
    THEN CHOOSE i \in 1..Len(lines) :
            /\ Strip(lines[i]) # <<>>
            /\ \A j \in 1..(i - 1) : Strip(lines[j]) = <<>>
    ELSE 0

last_non_empty_index(lines) ==
    IF \E i \in 1..Len(lines) : Strip(lines[i]) # <<>>
    THEN CHOOSE i \in 1..Len(lines) :
            /\ Strip(lines[i]) # <<>>
            /\ \A j \in (i + 1)..Len(lines) : Strip(lines[j]) = <<>>
    ELSE 0

-----------------------------------------------------------------------------
(* merge_block_page_breaks.  A block is a record with its text and its    *)
(* box; updated is the list of pages, page i (from 1) and page i + 1 the   *)
(* two sides of a boundary.                                                *)

\* lines 488-513: the two blocks get their new texts, or are popped
ReplaceBlocks(updated, i, new_last_text, new_first_text) ==
    [updated EXCEPT
        ![i] = IF new_last_text # <<>>
               THEN [@ EXCEPT ![Len(@)] = [@ EXCEPT !.text = new_last_text]]
               ELSE SubSeq(@, 1, Len(@) - 1),
        ![i + 1] = IF new_first_text # <<>>
                   THEN [@ EXCEPT ![1] = [@ EXCEPT !.text = new_first_text]]
                   ELSE Tail(@)]

\* lines 475-486 for tok = split_first_token(next_line)
MoveFragment(updated, i, last_lines, next_lines, last_idx, next_idx, last_line, tok) ==
    IF tok[1] = <<>>
    THEN updated
    ELSE ReplaceBlocks(updated, i,
             JoinStripped([last_lines EXCEPT
                              ![last_idx] = merge_lines(last_line, tok[1])]),
             JoinStripped(IF tok[2] # <<>>
                          THEN [next_lines EXCEPT ![next_idx] = tok[2]]
                          ELSE RemoveAt(next_lines, next_idx)))

\* lines 468-486 for the two lines at the boundary
MergePair(updated, i, last_lines, next_lines, last_idx, next_idx, last_line, next_line) ==
    IF last_line = <<>> \/ next_line = <<>>
    THEN updated
    ELSE IF ~should_merge_lines(last_line, next_line)
         THEN updated
         ELSE IF EndsWithHyphen(last_line)
              THEN MoveFragment(updated, i, last_lines, next_lines, last_idx,
                                next_idx, last_line,
                                split_first_token(next_line))
              ELSE updated

\* lines 463-469
MergeLinesAt(updated, i, last_lines, next_lines, last_idx, next_idx) ==
    IF last_idx = 0 \/ next_idx = 0
    THEN updated
    ELSE MergePair(updated, i, last_lines, next_lines, last_idx, next_idx,
                   RStrip(last_lines[last_idx]), LStrip(next_lines[next_idx]))

\* lines 461-464
MergeBlocksAt(updated, i, last_lines, next_lines) ==
    MergeLinesAt(updated, i, last_lines, next_lines,
                 last_non_empty_index(last_lines),
                 first_non_empty_index(next_lines))

\* lines 453-462: one pass of the loop
MergeBoundary(updated, i) ==
    IF updated[i] = <<>> \/ updated[i + 1] = <<>>
    THEN updated
    ELSE MergeBlocksAt(updated, i,
                       SplitLines(updated[i][Len(updated[i])].text),
                       SplitLines(updated[i + 1][1].text))

\* lines 452-513: the loop from boundary i on
RECURSIVE MergeBoundaries(_, _)
MergeBoundaries(updated, i) ==
    IF i > Len(updated) - 1
    THEN updated
    ELSE Bind(MergeBoundary(updated, i),
              LAMBDA u : MergeBoundaries(u, i + 1))

merge_block_page_breaks(pgs) == MergeBoundaries(pgs, 1)

\* a variant of CopiedPages for updated = list(pages): the lists of updated
\* are the lists of pages
AliasedPages(pgs) == [p \in 1..Len(pgs) |-> p]

\* line 450, updated = [list(page) for page in pages]: the page lists of
\* the argument are the objects 1..len(pages), and updated[p] is a new
\* object, the one after them with the same blocks
CopiedPages(pgs) == [p \in 1..Len(pgs) |-> Len(pgs) + p]

\* the page lists of the argument once the call has returned u: the loop
\* writes to the objects updated refers to (lines 453-454, 491-513)
PagesAfter(pgs, u) ==
    [p \in 1..Len(pgs) |->
        IF \E q \in 1..Len(pgs) : CopiedPages(pgs)[q] = p
        THEN u[CHOOSE q \in 1..Len(pgs) : CopiedPages(pgs)[q] = p]
        ELSE pgs[p]]

-----------------------------------------------------------------------------
(* pdf_utils: _merge_lines_in_text and normalize_page_texts.               *)

\* lines 117-126: the inner loop; st.i is the index (from 1) of the line
\* last taken into st.current
RECURSIVE AbsorbLines(_, _)
AbsorbLines(lines, st) ==
    IF st.i + 1 > Len(lines)
    THEN st
    ELSE IF Strip(lines[st.i + 1]) = <<>>
         THEN st
         ELSE IF looks_like_page_number(st.current)
              THEN st
              ELSE IF ~should_merge_lines(st.current, LStrip(lines[st.i + 1]))
                   THEN st
                   ELSE Bind([i |-> st.i + 1,
                              current |-> merge_lines(st.current,
                                              LStrip(lines[st.i + 1]))],
                             LAMBDA t : AbsorbLines(lines, t))

\* lines 109-128: the outer loop from line i on
RECURSIVE MergeLinesLoop(_, _, _)
MergeLinesLoop(lines, i, merged) ==
    IF i > Len(lines)
    THEN merged
    ELSE IF Strip(RStrip(lines[i])) = <<>>
         THEN MergeLinesLoop(lines, i + 1, Append(merged, <<>>))
         ELSE Bind(AbsorbLines(lines, [i |-> i, current |-> RStrip(lines[i])]),
                   LAMBDA st : MergeLinesLoop(lines, st.i + 1,
                                              Append(merged, st.current)))

\* lines 105-129; no string here holds "\r\n", which line 106 replaces
_merge_lines_in_text(text) ==
    JoinStripped(MergeLinesLoop(SplitNewline(text), 1, <<>>))

\* lines 88-99: the merge of the two lines at the boundary
JoinPages(lines_by_page, index, last_idx, next_idx, last_line, next_line, tok) ==
    IF EndsWithHyphen(last_line)
    THEN IF tok[1] = <<>>
         THEN lines_by_page
         ELSE [lines_by_page EXCEPT
                  ![index][last_idx] = merge_lines(last_line, tok[1]),
                  ![index + 1] = IF tok[2] # <<>>
                                 THEN [@ EXCEPT ![next_idx] = tok[2]]
                                 ELSE RemoveAt(@, next_idx)]
    ELSE [lines_by_page EXCEPT
             ![index][last_idx] = merge_lines(last_line, next_line),
             ![index + 1] = RemoveAt(@, next_idx)]

\* lines 80-99 for the two lines at the boundary
NormalizePair(lines_by_page, index, last_idx, next_idx, last_line, next_line) ==
    IF last_line = <<>> \/ next_line = <<>>
    THEN lines_by_page
    ELSE IF looks_like_page_number(last_line)
         THEN lines_by_page
         ELSE IF ~should_merge_lines(last_line, next_line)
              THEN lines_by_page
              ELSE JoinPages(lines_by_page, index, last_idx, next_idx,
                             last_line, next_line,
                             split_first_token(next_line))

\* lines 71-81
NormalizeAt(lines_by_page, index, last_idx, next_idx) ==
    IF last_idx = 0 \/ next_idx = 0
    THEN lines_by_page
    ELSE IF last_idx < Len(lines_by_page[index])
         THEN lines_by_page
         ELSE IF next_idx > 1
              THEN lines_by_page
              ELSE NormalizePair(lines_by_page, index, last_idx, next_idx,
                       RStrip(lines_by_page[index][last_idx]),
                       LStrip(lines_by_page[index + 1][next_idx]))

\* lines 70-99: the loop from boundary index (from 1) on
RECURSIVE NormalizeBoundaries(_, _)
NormalizeBoundaries(lines_by_page, index) ==
    IF index > Len(lines_by_page) - 1
    THEN lines_by_page
    ELSE Bind(NormalizeAt(lines_by_page, index,
                          last_non_empty_index(lines_by_page[index]),
                          first_non_empty_index(lines_by_page[index + 1])),
              LAMBDA l : NormalizeBoundaries(l, index + 1))

\* line 102
JoinAll(lines_by_page) ==
    [p \in 1..Len(lines_by_page) |-> JoinStripped(lines_by_page[p])]

\* lines 66-102
normalize_page_texts(texts) ==
    JoinAll(NormalizeBoundaries(
                [p \in 1..Len(texts) |->
                    SplitNewline(_merge_lines_in_text(texts[p]))], 1))

-----------------------------------------------------------------------------
(* Specification SpecMerge: merge_block_page_breaks on sample pages of     *)
(* blocks, or normalize_page_texts on sample page texts, called on the     *)
(* input and then on what it returned.                                     *)

\* the pages of a document, the blocks of a page, the calls in a row
MaxMergePages == 3
MaxPageBlocks == 2
MaxCalls == 2

\* "ab-", "cd- ef", "gh", "ef\n\nab-", "ABCD", "12"
BlockTexts ==
    { <<"a", "b", "-">>,
      <<"c", "d", "-", " ", "e", "f">>,
      <<"g", "h">>,
      <<"e", "f", "\n", "\n", "a", "b", "-">>,
      <<"A", "B", "C", "D">>,
      <<"1", "2">> }

\* the j-th block of page p: the blocks of a page lie one below the other
MergeBlock(text, p, j) ==
    [text |-> text, x0 |-> 7200, x1 |-> 12200, top |-> 7600 + 2400 * j,
     bottom |-> 8800 + 2400 * j, font_size |-> 900 + 100 * p]

\* "ab", "cd\n\nef", "ab-", "cd- ef", "Gh.", "12", "ABCD", "hyphen-",
\* "ated word.", ""
PageTexts ==
    { <<"a", "b">>,
      <<"c", "d", "\n", "\n", "e", "f">>,
      <<"a", "b", "-">>,
      <<"c", "d", "-", " ", "e", "f">>,
      <<"G", "h", ".">>,
      <<"1", "2">>,
      <<"A", "B", "C", "D">>,
      <<"h", "y", "p", "h", "e", "n", "-">>,
      <<"a", "t", "e", "d", " ", "w", "o", "r", "d", ".">>,
      <<>> }

SeqsUpTo(S, n) == UNION {[1..k -> S] : k \in 0..n}

InitMerge ==
    /\ \/ /\ merge_mode = "blocks"
          /\ \E n \in 1..MaxMergePages :
                \E texts \in [1..n -> SeqsUpTo(BlockTexts, MaxPageBlocks)] :
                   merge_doc = [p \in 1..n |->
                                   [j \in 1..Len(texts[p]) |->
                                       MergeBlock(texts[p][j], p, j)]]
       \/ /\ merge_mode = "texts"
          /\ \E n \in 1..MaxMergePages : merge_doc \in [1..n -> PageTexts]
    /\ merge_arg = <<>>
    /\ merge_calls = 0
    /\ FitIdle
    /\ LayoutIdle
    /\ UnitIdle

\* layout_utils.py lines 449-515, as called at cli.py line 223
MergeCall ==
    /\ merge_mode = "blocks"
    /\ merge_calls < MaxCalls
    /\ \E u \in {merge_block_page_breaks(merge_doc)} :
          /\ merge_arg' = PagesAfter(merge_doc, u)
          /\ merge_doc' = u
    /\ merge_calls' = merge_calls + 1
    /\ UNCHANGED <<merge_mode, fitVars, layoutVars, unitVars>>

\* pdf_utils.py lines 66-102
NormalizeCall ==
    /\ merge_mode = "texts"
    /\ merge_calls < MaxCalls
    /\ merge_arg' = merge_doc
    /\ merge_doc' = normalize_page_texts(merge_doc)
    /\ merge_calls' = merge_calls + 1
    /\ UNCHANGED <<merge_mode, fitVars, layoutVars, unitVars>>

NextMerge == MergeCall \/ NormalizeCall

SpecMerge == InitMerge /\ [][NextMerge]_vars

-----------------------------------------------------------------------------
(* Specification SpecText: the mergers as in SpecMerge, and one call of    *)
(* should_merge_lines on a pair of sample lines.  Every caller passes a    *)
(* next_line that went through lstrip() (pdf_utils.py lines 52, 81, 120,   *)
(* layout_utils.py line 469); last_line may end with white space           *)
(* (pdf_utils.py line 125 appends a next_line that was only lstripped).    *)

\* "hyphen-", "12", "INTRODUCTION", "Some text", "123 456", "- 12 -",
\* "some text.", "End.\"", "A B C D", "A B C D E F G H I", "AB1C", "12345",
\* "(so", "ok)", "What?)", " 7 ", "ABCD-", "", "ated word.", "End. ", "ab- "
SampleLines ==
    {
      <<"h", "y", "p", "h", "e", "n", "-">>,
      <<"1", "2">>,
      <<"I", "N", "T", "R", "O", "D", "U", "C", "T", "I", "O", "N">>,
      <<"S", "o", "m", "e", " ", "t", "e", "x", "t">>,
      <<"1", "2", "3", " ", "4", "5", "6">>,
      <<"-", " ", "1", "2", " ", "-">>,
      <<"s", "o", "m", "e", " ", "t", "e", "x", "t", ".">>,
      <<"E", "n", "d", ".", "\"">>,
      <<"A", " ", "B", " ", "C", " ", "D">>,
      <<"A", " ", "B", " ", "C", " ", "D", " ", "E", " ", "F", " ", "G", " ", "H", " ", "I">>,
      <<"A", "B", "1", "C">>,
      <<"1", "2", "3", "4", "5">>,
      <<"(", "s", "o">>,
      <<"o", "k", ")">>,
      <<"W", "h", "a", "t", "?", ")">>,
      <<" ", "7", " ">>,
      <<"A", "B", "C", "D", "-">>,
      <<>>,
      <<"a", "t", "e", "d", " ", "w", "o", "r", "d", ".">>,
      <<"E", "n", "d", ".", " ">>,
      <<"a", "b", "-", " ">> }

InitLines ==
    /\ \E last_line \in SampleLines, next_line \in SampleLines :
          pair = [pc |-> "call", last_line |-> last_line,
                  next_line |-> LStrip(next_line), result |-> FALSE]
    /\ ex = NoExtract
    /\ typo = NoProfile
    /\ ser = NoWrite
    /\ FitIdle
    /\ LayoutIdle
    /\ MergeIdle
    /\ CallIdle

\* text_utils.py lines 4-17
ShouldMergeCall ==
    /\ pair.pc = "call"
    /\ pair' = [pair EXCEPT
                   !.pc = "ret",
                   !.result = should_merge_lines(pair.last_line, pair.next_line)]
    /\ UNCHANGED <<fitVars, layoutVars, mergeVars, ex, typo, ser,
                   callVars>>

InitText == InitMerge \/ InitLines

NextText == NextMerge \/ ShouldMergeCall

SpecText == InitText /\ [][NextText]_vars

-----------------------------------------------------------------------------
(* Layout extraction: _build_line, _words_to_lines, _split_columns and     *)
(* _lines_to_blocks, and the loop body of extract_layout_blocks for one    *)
(* page.  A word is a record of pdfplumber's word dict; the text of a line *)
(* is the list of the texts of its words (joined by " " in the code) and   *)
(* the text of a block the list of the texts of its lines (joined by       *)
(* "\n").                                                                  *)

y_tolerance == 200

\* a < b for two sort keys (top, x0)
KeyLess(a, b) == a[1] < b[1] \/ (a[1] = b[1] /\ a[2] < b[2])

\* sorted(items, key=...), which is stable: the place of item i
PlaceOf(keys, i) ==
    1 + Cardinality({j \in 1..Len(keys) :
                        \/ KeyLess(keys[j], keys[i])
                        \/ keys[j] = keys[i] /\ j < i})

SortedByKeys(items, keys) ==
    [r \in 1..Len(items) |->
        items[CHOOSE i \in 1..Len(items) : PlaceOf(keys, i) = r]]

\* min(...) and max(...) of a non-empty list of numbers
MinOf(values) == CHOOSE v \in Range(values) : \A w \in Range(values) : v <= w
MaxOf(values) == CHOOSE v \in Range(values) : \A w \in Range(values) : v >= w

\* lines 61-69
_build_line(words) ==
    LET words_sorted ==
            SortedByKeys(words, [i \in 1..Len(words) |-> <<words[i].x0, 0>>])
        n == Len(words_sorted)
    IN  [text |-> [i \in 1..Len(SelectSeq(words_sorted,
                                          LAMBDA w : w.text # "")) |->
                      SelectSeq(words_sorted, LAMBDA w : w.text # "")[i].text],
         x0 |-> MinOf([i \in 1..n |-> words_sorted[i].x0]),
         x1 |-> MaxOf([i \in 1..n |-> words_sorted[i].x1]),
         top |-> MinOf([i \in 1..n |-> words_sorted[i].top]),
         bottom |-> MaxOf([i \in 1..n |-> words_sorted[i].bottom]),
         size |-> _median([i \in 1..n |-> words_sorted[i].size], 1100)]

\* a variant of the loop below that compares with the word before
RECURSIVE WordsLoopChained(_, _, _, _)
WordsLoopChained(rest, lines, current, current_top) ==
    IF rest = <<>>
    THEN IF current # <<>> THEN Append(lines, _build_line(current)) ELSE lines
    ELSE IF current = <<>>
         THEN WordsLoopChained(Tail(rest), lines, <<Head(rest)>>, Head(rest).top)
         ELSE IF Abs(Head(rest).top - current_top) <= y_tolerance
              THEN WordsLoopChained(Tail(rest), lines,
                                    Append(current, Head(rest)), Head(rest).top)
              ELSE WordsLoopChained(Tail(rest),
                                    Append(lines, _build_line(current)),
                                    <<Head(rest)>>, Head(rest).top)

\* lines 80-95: the loop over words_sorted and the last line; current = []
\* stands for current_top = None
RECURSIVE WordsLoop(_, _, _, _)
WordsLoop(rest, lines, current, current_top) ==
    IF rest = <<>>
    THEN IF current # <<>> THEN Append(lines, _build_line(current)) ELSE lines
    ELSE IF current = <<>>
         THEN WordsLoop(Tail(rest), lines, <<Head(rest)>>, Head(rest).top)
         ELSE IF Abs(Head(rest).top - current_top) <= y_tolerance
              THEN WordsLoop(Tail(rest), lines, Append(current, Head(rest)),
                             Min(current_top, Head(rest).top))
              ELSE WordsLoop(Tail(rest), Append(lines, _build_line(current)),
                             <<Head(rest)>>, Head(rest).top)

\* lines 72-97
_words_to_lines(words) ==
    IF words = <<>>
    THEN <<>>
    ELSE WordsLoop(SortedByKeys(words, [i \in 1..Len(words) |->
                                           <<words[i].top, words[i].x0>>]),
                   <<>>, <<>>, 0)

\* round(x, 1) for x >= 0 in 1/100: the nearest tenth, the even one of two
Round1(x) ==
    IF x % 10 < 5
    THEN x - (x % 10)
    ELSE IF x % 10 > 5
         THEN x - (x % 10) + 10
         ELSE IF ((x - 5) \div 10) % 2 = 0 THEN x - 5 ELSE x + 5

\* sorted(set): the values of a set of numbers in ascending order
SortedSet(S) ==
    [r \in 1..Cardinality(S) |->
        CHOOSE v \in S : Cardinality({w \in S : w < v}) = r - 1]

\* line 104
RoundedX0s(lines) == SortedSet({Round1(lines[i].x0) : i \in 1..Len(lines)})

\* lines 108-109
Gaps(x0s) == [i \in 1..(Len(x0s) - 1) |-> x0s[i + 1] - x0s[i]]

\* lines 113-114: gaps.index(max_gap), and twice split_x
SplitIndex(gaps) ==
    CHOOSE i \in 1..Len(gaps) :
        /\ gaps[i] = MaxOf(gaps)
        /\ \A j \in 1..(i - 1) : gaps[j] # MaxOf(gaps)

TwiceSplitX(x0s) == x0s[SplitIndex(Gaps(x0s))] + x0s[SplitIndex(Gaps(x0s)) + 1]

\* a variant of the split below that accepts a column of any size
SplitAtAnySize(lines, twice_split_x) ==
    << SelectSeq(lines, LAMBDA line : 2 * line.x0 < twice_split_x),
       SelectSeq(lines, LAMBDA line : 2 * line.x0 >= twice_split_x) >>

\* lines 115-120
SplitAt(lines, twice_split_x) ==
    IF \/ Len(SelectSeq(lines, LAMBDA line : 2 * line.x0 < twice_split_x)) < 3
       \/ Len(SelectSeq(lines, LAMBDA line : 2 * line.x0 >= twice_split_x)) < 3
    THEN << lines >>
    ELSE << SelectSeq(lines, LAMBDA line : 2 * line.x0 < twice_split_x),
            SelectSeq(lines, LAMBDA line : 2 * line.x0 >= twice_split_x) >>

\* lines 100-120; max_gap < page_width * 0.2 is 5 * max_gap < page_width
_split_columns(lines, page_width) ==
    IF Len(lines) < 6
    THEN << lines >>
    ELSE IF Len(RoundedX0s(lines)) < 2
         THEN << lines >>
         ELSE IF 5 * MaxOf(Gaps(RoundedX0s(lines))) < page_width
              THEN << lines >>
              ELSE SplitAt(lines, TwiceSplitX(RoundedX0s(lines)))

\* line 128
LineHeights(lines) ==
    [i \in 1..Len(lines) |-> Max(lines[i].bottom - lines[i].top, 100)]

\* a variant of the test below with the median itself as the threshold
GapExceedsMedian(gap, median_height) == gap > median_height

\* line 135 with gap_threshold = median * 1.5 of line 129
GapExceeds(gap, median_height) == 2 * gap > 3 * median_height

\* lines 133-141: the loop over lines_sorted[1:] and the last block
RECURSIVE GroupLoop(_, _, _, _)
GroupLoop(rest, blocks, current, median_height) ==
    IF rest = <<>>
    THEN IF current # <<>> THEN Append(blocks, current) ELSE blocks
    ELSE IF GapExceeds(Head(rest).top - current[Len(current)].bottom,
                       median_height)
         THEN GroupLoop(Tail(rest), Append(blocks, current), <<Head(rest)>>,
                        median_height)
         ELSE GroupLoop(Tail(rest), blocks, Append(current, Head(rest)),
                        median_height)

\* lines 144-153 for one list of lines
BuildBlock(block_lines) ==
    [text |-> [i \in 1..Len(SelectSeq(block_lines,
                                      LAMBDA line : line.text # <<>>)) |->
                  SelectSeq(block_lines, LAMBDA line : line.text # <<>>)[i].text],
     x0 |-> MinOf([i \in 1..Len(block_lines) |-> block_lines[i].x0]),
     x1 |-> MaxOf([i \in 1..Len(block_lines) |-> block_lines[i].x1]),
     top |-> MinOf([i \in 1..Len(block_lines) |-> block_lines[i].top]),
     bottom |-> MaxOf([i \in 1..Len(block_lines) |-> block_lines[i].bottom]),
     font_size |-> _median([i \in 1..Len(block_lines) |-> block_lines[i].size],
                           1100)]

\* lines 127-141: the lists of lines that become blocks
LineGroups(lines) ==
    LET lines_sorted ==
            SortedByKeys(lines, [i \in 1..Len(lines) |->
                                    <<lines[i].top, lines[i].x0>>])
    IN  GroupLoop(Tail(lines_sorted), <<>>, <<Head(lines_sorted)>>,
                  _median(LineHeights(lines_sorted), 1200))

\* lines 123-155
_lines_to_blocks(lines) ==
    IF lines = <<>>
    THEN <<>>
    ELSE [b \in 1..Len(LineGroups(lines)) |-> BuildBlock(LineGroups(lines)[b])]

\* lines 176-179: the blocks of the columns, sorted by (top, x0)
ColumnBlocks(columns) ==
    LET blocks == Flatten([c \in 1..Len(columns) |->
                              _lines_to_blocks(columns[c])])
    IN  SortedByKeys(blocks, [i \in 1..Len(blocks) |->
                                 <<blocks[i].top, blocks[i].x0>>])

-----------------------------------------------------------------------------
(* Specification SpecExtract: the loop body of extract_layout_blocks for   *)
(* one page, a call at a time, on a choice of the words below (two columns *)
(* of lines 12 pt apart, words that share a line, a tall word, a word      *)
(* without size) and two page widths.                                      *)

Word(text, x0, top, height, size) ==
    [text |-> text, x0 |-> x0, x1 |-> x0 + 3000, top |-> top,
     bottom |-> top + height, size |-> size]

WordPool ==
    << Word("g", 30000, 10600, 1000, 1000),
       Word("h", 30000, 11800, 1000, 1000),
       Word("i", 30000, 13000, 1000, 1000),
       Word("t", 30000, 14200, 4000, 3000),
       Word("b", 12000, 10050, 1000, 1000),
       Word("a", 7200, 10000, 1000, 1000),
       Word("j", 20000, 10190, 1000, 1000),
       Word("k", 20000, 10300, 1000, 1000),
       Word("c", 7203, 11200, 1000, 1000),
       Word("d", 7200, 12400, 1000, 0),
       Word("e", 7200, 13600, 1000, 1000),
       Word("f", 7200, 15800, 1000, 1200),
       Word("m", 7200, 19500, 1000, 1200) >>

ExtractWidths == {61200, 120000}

\* the words of the pool at the places S, in the pool's order
PickWords(S) == SortedSet(S)

InitExtract ==
    /\ \E S \in SUBSET (1..Len(WordPool)), page_width \in ExtractWidths :
          ex = [NoExtract EXCEPT
                   !.pc = "words",
                   !.words = [i \in 1..Cardinality(S) |->
                                 WordPool[PickWords(S)[i]]],
                   !.page_width = page_width]
    /\ pair = NoPair
    /\ typo = NoProfile
    /\ ser = NoWrite
    /\ FitIdle
    /\ LayoutIdle
    /\ MergeIdle
    /\ CallIdle

\* line 174
WordsToLines ==
    /\ ex.pc = "words"
    /\ ex' = [ex EXCEPT !.pc = "lines", !.lines = _words_to_lines(ex.words)]
    /\ UNCHANGED <<fitVars, layoutVars, mergeVars, pair, typo, ser,
                   callVars>>

\* line 175
SplitColumns ==
    /\ ex.pc = "lines"
    /\ ex' = [ex EXCEPT !.pc = "columns",
                        !.columns = _split_columns(ex.lines, ex.page_width)]
    /\ UNCHANGED <<fitVars, layoutVars, mergeVars, pair, typo, ser,
                   callVars>>

\* lines 176-180
LinesToBlocks ==
    /\ ex.pc = "columns"
    /\ ex' = [ex EXCEPT !.pc = "blocks", !.blocks = ColumnBlocks(ex.columns)]
    /\ UNCHANGED <<fitVars, layoutVars, mergeVars, pair, typo, ser,
                   callVars>>

NextExtract == WordsToLines \/ SplitColumns \/ LinesToBlocks

SpecExtract == InitExtract /\ [][NextExtract]_vars

-----------------------------------------------------------------------------
(* Specification SpecProfile: extract_typography_profile on the pages of a *)
(* document.                                                                *)

\* block font sizes: none, body sizes, sizes at and next to 1.2 times a
\* body size, and heading sizes 0.2, 0.5 and 0.7 pt apart
ProfileSizes == {0, 1000, 1100, 1200, 1410, 1430, 1480, 1500}

MaxProfilePages == 2
MaxProfileBlocks == 2

SizedBlock(size) ==
    [text |-> "ab", x0 |-> 7200, x1 |-> 54000, top |-> 7200, bottom |-> 8200,
     font_size |-> size]

ProfilePages ==
    LET page_set == {[b \in 1..Len(s) |-> SizedBlock(s[b])] :
                        s \in SeqsUpTo(ProfileSizes, MaxProfileBlocks)}
    IN  SeqsUpTo(page_set, MaxProfilePages)

InitProfile ==
    /\ \E pgs \in ProfilePages :
          typo = [NoProfile EXCEPT !.pc = "call", !.pages = pgs]
    /\ pair = NoPair
    /\ ex = NoExtract
    /\ ser = NoWrite
    /\ FitIdle
    /\ LayoutIdle
    /\ MergeIdle
    /\ CallIdle

ExtractProfile ==
    /\ typo.pc = "call"
    /\ typo' = [typo EXCEPT !.pc = "ret",
                            !.profile = extract_typography_profile(typo.pages)]
    /\ UNCHANGED <<fitVars, layoutVars, mergeVars, pair, ex, ser,
                   callVars>>

NextProfile == ExtractProfile

SpecProfile == InitProfile /\ [][NextProfile]_vars

-----------------------------------------------------------------------------
(* Formatting report: FormattingIssueReport.to_dict and                    *)
(* write_formatting_report. A dict is the list of its (key, value) pairs    *)
(* in insertion order; the file is the list of the tokens written.          *)

JsonStr(s) == [kind |-> "str", body |-> s]
JsonInt(n) == [kind |-> "int", body |-> n]
JsonList(items) == [kind |-> "list", body |-> items]
JsonDict(pairs) == [kind |-> "dict", body |-> pairs]

\* the keys of a report's dicts in the order of Python's str comparison
KeyOrder ==
    << "description", "font_scaled_down", "issue_type", "issues",
       "overflow_used", "page_number", "run_id", "severity", "summary",
       "truncation" >>

KeyRank(key) == CHOOSE i \in 1..Len(KeyOrder) : KeyOrder[i] = key

\* a variant of SortedPairs that keeps the insertion order
InsertionOrder(pairs) == pairs

\* sort_keys=True: the items of a dict sorted by key
SortedPairs(pairs) ==
    SortSeq(pairs, LAMBDA a, b : KeyRank(a[1]) < KeyRank(b[1]))

Separator(i) == IF i > 1 THEN << "," >> ELSE <<>>

\* json.dump(payload, handle, indent=2, sort_keys=True)
RECURSIVE JsonDump(_)
JsonDump(v) ==
    CASE v.kind = "str" -> << "\"", v.body, "\"" >>
      [] v.kind = "int" -> << ToString(v.body) >>
      [] v.kind = "list" ->
            << "[" >>
            \o Flatten([i \in 1..Len(v.body) |->
                           Separator(i) \o JsonDump(v.body[i])])
            \o << "]" >>
      [] v.kind = "dict" ->
            << "{" >>
            \o Flatten([i \in 1..Len(v.body) |->
                           Separator(i)
                           \o << "\"", SortedPairs(v.body)[i][1], "\"", ":" >>
                           \o JsonDump(SortedPairs(v.body)[i][2])])
            \o << "}" >>

\* lines 25-38
to_dict(rep) ==
    JsonDict(<<
       << "run_id", JsonStr(rep.run_id) >>,
       << "summary",
          JsonDict([i \in 1..Len(rep.summary) |->
                       << rep.summary[i][1],
                          JsonInt(rep.summary[i][2]) >>]) >>,
       << "issues",
          JsonList([i \in 1..Len(rep.issues) |->
                       JsonDict(<<
                          << "page_number",
                             JsonInt(rep.issues[i].page_number) >>,
                          << "issue_type",
                             JsonStr(rep.issues[i].issue_type) >>,
                          << "description",
                             JsonStr(rep.issues[i].description) >>,
                          << "severity",
                             JsonStr(rep.issues[i].severity) >> >>)]) >> >>)

\* lines 41-44: the content of the file at output_path
write_formatting_report(rep) == JsonDump(to_dict(rep))

-----------------------------------------------------------------------------
(* Specification SpecReport: two reports are written.                       *)

MaxIssues == 2
MaxSummaryKeys == 2

ReportIssues ==
    { FormattingIssue(2, "font_scaled_down", "Font size reduced.", "medium"),
      FormattingIssue(1, "truncation", "Text truncated.", "high") }

RunIds == {"run-a", "run-b"}
SummaryKeys == {"font_scaled_down", "overflow_used", "truncation"}
SummaryCounts == {1, 2}

\* the summaries: lists of (key, count) pairs with different keys
Summaries ==
    {s \in SeqsUpTo(SummaryKeys \X SummaryCounts, MaxSummaryKeys) :
        \A i, j \in 1..Len(s) : i # j => s[i][1] # s[j][1]}

Reversed(s) == [i \in 1..Len(s) |-> s[Len(s) + 1 - i]]

InitReport ==
    /\ \E run_id \in RunIds, issue_list \in SeqsUpTo(ReportIssues, MaxIssues),
          first_summary \in Summaries, second_summary \in Summaries,
          same_order \in BOOLEAN :
          ser = [NoWrite EXCEPT
                    !.pc = "first",
                    !.first = [run_id |-> run_id, issues |-> issue_list,
                               summary |-> first_summary],
                    !.second = [run_id |-> run_id,
                                issues |-> IF same_order THEN issue_list
                                           ELSE Reversed(issue_list),
                                summary |-> second_summary]]
    /\ pair = NoPair
    /\ ex = NoExtract
    /\ typo = NoProfile
    /\ FitIdle
    /\ LayoutIdle
    /\ MergeIdle
    /\ CallIdle

WriteFirst ==
    /\ ser.pc = "first"
    /\ ser' = [ser EXCEPT !.pc = "second",
                          !.first_out = write_formatting_report(ser.first)]
    /\ UNCHANGED <<fitVars, layoutVars, mergeVars, pair, ex, typo,
                   callVars>>

WriteSecond ==
    /\ ser.pc = "second"
    /\ ser' = [ser EXCEPT !.pc = "done",
                          !.second_out = write_formatting_report(ser.second)]
    /\ UNCHANGED <<fitVars, layoutVars, mergeVars, pair, ex, typo,
                   callVars>>

NextReport == WriteFirst \/ WriteSecond

SpecReport == InitReport /\ [][NextReport]_vars

-----------------------------------------------------------------------------
(* providers/base.py: BaseProvider.translate, a step at a time.  A frame   *)
(* holds the attributes model_name and max_retries, the loop variable      *)
(* attempt, the calls of _generate and of time.sleep made so far, in       *)
(* order, and the result or the exception raised.                          *)

Alphabet ==
    << "a", "b", "c", "d", "e", "f", "g", "h", "i", "j", "k", "l", "m",
       "n", "o", "p", "q", "r", "s", "t", "u", "v", "w", "x", "y", "z" >>
Capitals ==
    << "A", "B", "C", "D", "E", "F", "G", "H", "I", "J", "K", "L", "M",
       "N", "O", "P", "Q", "R", "S", "T", "U", "V", "W", "X", "Y", "Z" >>

\* str.lower()
LowerChar(c) ==
    IF \E i \in 1..26 : Capitals[i] = c
    THEN Alphabet[CHOOSE i \in 1..26 : Capitals[i] = c]
    ELSE c

StrLower(s) == [i \in 1..Len(s) |-> LowerChar(s[i])]

\* sub in s
Contains(s, sub) ==
    \E i \in 0..(Len(s) - Len(sub)) : SubSeq(s, i + 1, i + Len(sub)) = sub

\* a variant of _is_not_found that looks for "not found" only
IsNotFoundPhraseOnly(message) ==
    Contains(StrLower(message), <<"n", "o", "t", " ", "f", "o", "u", "n", "d">>)

\* lines 55-57
_is_not_found(message) ==
    \/ Contains(StrLower(message),
                <<"n", "o", "t", " ", "f", "o", "u", "n", "d">>)
    \/ Contains(StrLower(message), <<"4", "0", "4">>)

Power2(n) == IF n = 0 THEN 1 ELSE IF n = 1 THEN 2 ELSE IF n = 2 THEN 4 ELSE 8

GenerateCall(outcome) == [op |-> "generate", outcome |-> outcome]
SleepCall(seconds) == [op |-> "sleep", seconds |-> seconds]

TranslateCall(model_name, max_retries) ==
    [pc |-> "call", model_name |-> model_name, max_retries |-> max_retries,
     attempt |-> 0, events |-> <<>>, result |-> <<>>,
     error |-> [type |-> "none", call |-> 0]]

\* lines 30-32
TranslateEnterStep(t) ==
    IF t.model_name = ""
    THEN [t EXCEPT !.pc = "raised",
                   !.error = [type |-> "ValueError", call |-> 0]]
    ELSE [t EXCEPT !.pc = "loop", !.attempt = 0]

\* lines 36-43 with the test of the last attempt left out
AfterFailureNoLastTest(t, message, call) ==
    IF _is_not_found(message)
    THEN [t EXCEPT !.pc = "raised",
                   !.error = [type |-> "ValueError", call |-> call]]
    ELSE [t EXCEPT !.pc = "sleep"]

\* lines 36-43: the except clause, for the message of the exception of
\* the call-th call of _generate
AfterFailure(t, message, call) ==
    IF _is_not_found(message)
    THEN [t EXCEPT !.pc = "raised",
                   !.error = [type |-> "ValueError", call |-> call]]
    ELSE IF t.attempt = t.max_retries - 1
         THEN [t EXCEPT !.pc = "raised",
                        !.error = [type |-> "raised by _generate",
                                   call |-> call]]
         ELSE [t EXCEPT !.pc = "sleep"]

\* lines 33-35 and 44: one pass of the loop up to the end of the except
\* clause, for the outcome of the call of _generate; return "" when the
\* range is exhausted.  An exception that is no Exception (an interrupt)
\* is not caught by line 36.
TranslateAttemptStep(t, outcome) ==
    IF t.attempt >= t.max_retries
    THEN [t EXCEPT !.pc = "ret", !.result = <<>>]
    ELSE IF outcome.kind = "return"
         THEN [t EXCEPT !.pc = "ret", !.result = Strip(outcome.value),
                        !.events = Append(@, GenerateCall(outcome))]
         ELSE IF outcome.kind = "interrupt"
              THEN [t EXCEPT !.pc = "raised",
                             !.events = Append(@, GenerateCall(outcome)),
                             !.error = [type |-> "raised by _generate",
                                        call |-> Len(t.events) + 1]]
              ELSE AfterFailure([t EXCEPT !.events =
                                              Append(@, GenerateCall(outcome))],
                                outcome.value, Len(t.events) + 1)

\* line 43 and the next value of the range
TranslateSleepStep(t) ==
    [t EXCEPT !.pc = "loop", !.attempt = t.attempt + 1,
              !.events = Append(@, SleepCall(Power2(t.attempt)))]

-----------------------------------------------------------------------------
(* Specification SpecTranslate: one call of translate; every call of       *)
(* _generate returns a text, raises an Exception with a message, or is     *)
(* interrupted (KeyboardInterrupt).                                        *)

MaxRetries == 3

\* " ok\n", "ok", ""
Responses ==
    { <<" ", "o", "k", "\n">>, <<"o", "k">>, <<>> }

\* "temp", "Not Found", "404", "notfound"
Messages ==
    { <<"t", "e", "m", "p">>,
      <<"N", "o", "t", " ", "F", "o", "u", "n", "d">>,
      <<"4", "0", "4">>,
      <<"n", "o", "t", "f", "o", "u", "n", "d">> }

Outcomes ==
    {[kind |-> "return", value |-> v] : v \in Responses}
       \cup {[kind |-> "raise", value |-> m] : m \in Messages}
       \cup {[kind |-> "interrupt", value |-> <<"4", "0", "4">>]}

InitTranslate ==
    /\ \E model_name \in {"", "model"}, max_retries \in 0..MaxRetries :
          tr = TranslateCall(model_name, max_retries)
    /\ ck = NoChunk
    /\ cli = NoMain
    /\ reg = NoRegistry
    /\ TextIdle
    /\ FitIdle
    /\ LayoutIdle
    /\ MergeIdle

TranslateEnter ==
    /\ tr.pc = "call"
    /\ tr' = TranslateEnterStep(tr)
    /\ UNCHANGED <<fitVars, layoutVars, mergeVars, pair, ex, typo, ser,
                   ck, cli, reg>>

TranslateAttempt ==
    /\ tr.pc = "loop"
    /\ \E outcome \in Outcomes : tr' = TranslateAttemptStep(tr, outcome)
    /\ UNCHANGED <<fitVars, layoutVars, mergeVars, pair, ex, typo, ser,
                   ck, cli, reg>>

TranslateSleep ==
    /\ tr.pc = "sleep"
    /\ tr' = TranslateSleepStep(tr)
    /\ UNCHANGED <<fitVars, layoutVars, mergeVars, pair, ex, typo, ser,
                   ck, cli, reg>>

NextTranslate == TranslateEnter \/ TranslateAttempt \/ TranslateSleep

SpecTranslate == InitTranslate /\ [][NextTranslate]_vars

-----------------------------------------------------------------------------
(* translator.py: chunk_text, a paragraph at a time.  A frame holds the    *)
(* arguments, the list paragraphs, the number of paragraphs taken from it, *)
(* the locals current and chunks, and for every chunk appended the first   *)
(* and the last paragraph it was made from.                                *)

BlankLine == <<"\n", "\n">>

\* str.split("\n\n"): cut at the occurrences of the separator, from the left
RECURSIVE SplitBlankLine(_)
SplitBlankLine(s) ==
    IF \E i \in 1..(Len(s) - 1) : SubSeq(s, i, i + 1) = BlankLine
    THEN LET i == CHOOSE i \in 1..(Len(s) - 1) :
                     /\ SubSeq(s, i, i + 1) = BlankLine
                     /\ \A j \in 1..(i - 1) : SubSeq(s, j, j + 1) # BlankLine
         IN  <<SubSeq(s, 1, i - 1)>> \o SplitBlankLine(SubSeq(s, i + 2, Len(s)))
    ELSE <<s>>

\* line 12
ChunkParagraphs(text) ==
    SelectSeq(SplitBlankLine(text), LAMBDA p : Strip(p) # <<>>)

\* lines 21-24: the slices para[start : start + max_chars]
RECURSIVE Slices(_, _)
Slices(para, max_chars) ==
    IF para = <<>> THEN <<>>
    ELSE <<Take(para, max_chars)>> \o Slices(Drop(para, max_chars), max_chars)

ChunkCall(text, max_chars) ==
    [pc |-> "call", text |-> text, max_chars |-> max_chars,
     paragraphs |-> <<>>, taken |-> 0, current |-> <<>>, first |-> 0,
     chunks |-> <<>>, spans |-> <<>>]

\* lines 12-14
ChunkEnterStep(c) ==
    [c EXCEPT !.pc = "loop", !.paragraphs = ChunkParagraphs(c.text),
              !.taken = 0, !.current = <<>>, !.chunks = <<>>]

\* lines 18-20 and 34, 38: chunks.append(current)
AppendCurrent(c, last) ==
    [c EXCEPT !.chunks = Append(@, c.current),
              !.spans = Append(@, <<c.first, last>>)]

\* a variant of line 31 that leaves the separator out of the length
FitsCurrentNoSeparator(c, para) == Len(c.current) + Len(para) <= c.max_chars

\* line 31
FitsCurrent(c, para) == Len(c.current) + Len(para) + 2 <= c.max_chars

\* lines 16-35: one pass of the loop, for the paragraph numbered n
ChunkParaStep(c, n) ==
    LET para == c.paragraphs[n]
        flushed == IF c.current # <<>> THEN AppendCurrent(c, n - 1) ELSE c
    IN  IF Len(para) > c.max_chars
        THEN [flushed EXCEPT
                !.taken = n, !.current = <<>>, !.first = 0,
                !.chunks = @ \o Slices(para, c.max_chars),
                !.spans = @ \o [k \in 1..Len(Slices(para, c.max_chars)) |->
                                   <<n, n>>]]
        ELSE IF c.current = <<>>
             THEN [c EXCEPT !.taken = n, !.current = para, !.first = n]
             ELSE IF FitsCurrent(c, para)
                  THEN [c EXCEPT !.taken = n,
                                 !.current = c.current \o BlankLine \o para]
                  ELSE [flushed EXCEPT !.taken = n, !.current = para,
                                       !.first = n]

\* lines 37-40
ChunkReturnStep(c) ==
    [(IF c.current # <<>> THEN AppendCurrent(c, c.taken) ELSE c)
        EXCEPT !.pc = "ret"]

\* lines 16-35: the loop over the paragraphs
RECURSIVE ChunkLoop(_)
ChunkLoop(c) ==
    IF c.taken = Len(c.paragraphs) THEN c
    ELSE ChunkLoop(ChunkParaStep(c, c.taken + 1))

\* lines 11-40: the whole call
chunk_text(text, max_chars) ==
    ChunkReturnStep(ChunkLoop(ChunkEnterStep(ChunkCall(text, max_chars)))).chunks

\* "\n\n".join(...)
RECURSIVE JoinBlankLine(_)
JoinBlankLine(paras) ==
    IF Len(paras) = 0 THEN <<>>
    ELSE IF Len(paras) = 1 THEN paras[1]
    ELSE paras[1] \o BlankLine \o JoinBlankLine(Tail(paras))

-----------------------------------------------------------------------------
(* Specification SpecChunk: one call of chunk_text on a text of up to      *)
(* MaxTextLen characters with max_chars from 1 to MaxChars.                *)

MaxTextLen == 7
MaxChars == 5

ChunkChars == {"a", " ", "\n"}

InitChunk ==
    /\ \E text \in SeqsUpTo(ChunkChars, MaxTextLen), max_chars \in 1..MaxChars :
          ck = ChunkCall(text, max_chars)
    /\ tr = NoTranslate
    /\ cli = NoMain
    /\ reg = NoRegistry
    /\ TextIdle
    /\ FitIdle
    /\ LayoutIdle
    /\ MergeIdle

ChunkEnter ==
    /\ ck.pc = "call"
    /\ ck' = ChunkEnterStep(ck)
    /\ UNCHANGED <<fitVars, layoutVars, mergeVars, pair, ex, typo, ser,
                   tr, cli, reg>>

ChunkPara ==
    /\ ck.pc = "loop"
    /\ ck.taken < Len(ck.paragraphs)
    /\ ck' = ChunkParaStep(ck, ck.taken + 1)
    /\ UNCHANGED <<fitVars, layoutVars, mergeVars, pair, ex, typo, ser,
                   tr, cli, reg>>

ChunkReturn ==
    /\ ck.pc = "loop"
    /\ ck.taken = Len(ck.paragraphs)
    /\ ck' = ChunkReturnStep(ck)
    /\ UNCHANGED <<fitVars, layoutVars, mergeVars, pair, ex, typo, ser,
                   tr, cli, reg>>

NextChunk == ChunkEnter \/ ChunkPara \/ ChunkReturn

SpecChunk == InitChunk /\ [][NextChunk]_vars

-----------------------------------------------------------------------------
(* providers/registry.py: the tables _REGISTRY and _ALIASES as functions   *)
(* from the keys they hold, and the outcome of the last call.              *)

\* lines 23, 38, 51, 56: name.strip().lower()
RegistryKey(name) == StrLower(Strip(name))

\* line 39: ProviderAlias(provider_cls, defaults or {}, env_map or {})
ProviderAlias(provider_cls, defaults, env_map) ==
    [provider_cls |-> provider_cls,
     defaults |-> IF defaults = "None" THEN "{}" ELSE defaults,
     env_map |-> IF env_map = "None" THEN "{}" ELSE env_map]

Outcome(r, op, key, result) ==
    [r EXCEPT !.last = [op |-> op, key |-> key, result |-> result]]

\* lines 22-29
register_provider(r, name, provider) ==
    LET key == RegistryKey(name)
    IN  IF key \in DOMAIN r.registry
        THEN IF r.registry[key] = provider
             THEN Outcome(r, "register_provider", key, "return")
             ELSE Outcome(r, "register_provider", key, "ValueError")
        ELSE Outcome([r EXCEPT !.registry = (key :> provider) @@ @],
                     "register_provider", key, "return")

\* lines 32-47
register_alias(r, name, provider_cls, defaults, env_map) ==
    LET key == RegistryKey(name)
        alias == ProviderAlias(provider_cls, defaults, env_map)
    IN  IF key \in DOMAIN r.aliases
        THEN IF r.aliases[key] = alias
             THEN Outcome(r, "register_alias", key, "return")
             ELSE Outcome(r, "register_alias", key, "ValueError")
        ELSE IF key \in DOMAIN r.registry
             THEN Outcome(r, "register_alias", key, "ValueError")
             ELSE Outcome([r EXCEPT !.aliases = (key :> alias) @@ @],
                          "register_alias", key, "return")

\* lines 50-52
unregister_provider(r, name) ==
    LET key == RegistryKey(name)
    IN  Outcome([r EXCEPT !.registry =
                             [k \in DOMAIN r.registry \ {key} |-> r.registry[k]]],
                "unregister_provider", key, "return")

\* lines 55-67: the class that is instantiated, or ValueError
create_provider(r, name) ==
    LET key == RegistryKey(name)
    IN  IF key \in DOMAIN r.aliases
        THEN Outcome(r, "create_provider", key, r.aliases[key].provider_cls)
        ELSE IF key \notin DOMAIN r.registry
             THEN Outcome(r, "create_provider", key, "ValueError")
             ELSE Outcome(r, "create_provider", key, r.registry[key])

-----------------------------------------------------------------------------
(* Specification SpecRegistry: any sequence of calls of the four functions *)
(* on the tables, which are empty when the module is loaded (lines 11-12). *)

\* "x", " X ", "y"
ProviderNames == { <<"x">>, <<" ", "X", " ">>, <<"y">> }
ProviderClasses == {"ProviderA", "ProviderB"}
AliasDefaults == {"None", "{}", "{base_url}"}

InitRegistry ==
    /\ reg = [pc |-> "loaded", registry |-> <<>>, aliases |-> <<>>,
              last |-> [op |-> "import", key |-> <<>>, result |-> "return"]]
    /\ tr = NoTranslate
    /\ ck = NoChunk
    /\ cli = NoMain
    /\ TextIdle
    /\ FitIdle
    /\ LayoutIdle
    /\ MergeIdle

RegisterProvider ==
    /\ reg.pc = "loaded"
    /\ \E name \in ProviderNames, provider \in ProviderClasses :
          reg' = register_provider(reg, name, provider)
    /\ UNCHANGED <<fitVars, layoutVars, mergeVars, pair, ex, typo, ser,
                   tr, ck, cli>>

RegisterAlias ==
    /\ reg.pc = "loaded"
    /\ \E name \in ProviderNames, provider_cls \in ProviderClasses,
          defaults \in AliasDefaults :
          reg' = register_alias(reg, name, provider_cls, defaults, "None")
    /\ UNCHANGED <<fitVars, layoutVars, mergeVars, pair, ex, typo, ser,
                   tr, ck, cli>>

UnregisterProvider ==
    /\ reg.pc = "loaded"
    /\ \E name \in ProviderNames : reg' = unregister_provider(reg, name)
    /\ UNCHANGED <<fitVars, layoutVars, mergeVars, pair, ex, typo, ser,
                   tr, ck, cli>>

CreateProvider ==
    /\ reg.pc = "loaded"
    /\ \E name \in ProviderNames : reg' = create_provider(reg, name)
    /\ UNCHANGED <<fitVars, layoutVars, mergeVars, pair, ex, typo, ser,
                   tr, ck, cli>>

NextRegistry ==
    RegisterProvider \/ RegisterAlias \/ UnregisterProvider \/ CreateProvider

SpecRegistry == InitRegistry /\ [][NextRegistry]_vars

-----------------------------------------------------------------------------
(* cli.py: main from the point where the document has been read, a step   *)
(* at a time.  A frame holds the mode (soft layout, preserve-pages or      *)
(* plain), args.max_chunks and args.chunk_size, the document (the blocks   *)
(* of the pages, the page texts, or the merged text), the page sizes, the  *)
(* locals of the loops, the calls of translate_chunk made so far and the   *)
(* arguments of the call that writes the output.  remaining_chunks is      *)
(* None when limited is FALSE.                                             *)

MainCall(mode, max_chunks, chunk_size, input, sizes) ==
    [pc |-> "call", mode |-> mode, max_chunks |-> max_chunks,
     chunk_size |-> chunk_size, input |-> input, page_sizes |-> sizes,
     limited |-> FALSE, remaining_chunks |-> 0,
     page_index |-> 0, block_index |-> 0,
     chunks |-> <<>>, chunk_index |-> 0, translated_chunks |-> <<>>,
     translated_blocks |-> <<>>, translated_pages |-> <<>>,
     calls |-> <<>>, written |-> <<>>]

\* lines 228, 233, 266, 282, 303
BudgetSpent(m) == m.limited /\ m.remaining_chunks <= 0

\* a variant of lines 240-241 and 289-290 that keeps every chunk
CutNothing(m, chunks) == chunks

\* lines 240-241 and 289-290
CutToBudget(m, chunks) ==
    IF m.limited /\ m.remaining_chunks < Len(chunks)
    THEN Take(chunks, m.remaining_chunks)
    ELSE chunks

\* lines 242-243, 291-292, 316-317
StartChunks(m, chunks) ==
    [m EXCEPT !.pc = "chunk", !.chunks = chunks, !.chunk_index = 0,
              !.translated_chunks = <<>>]

\* lines 224-225, 278-280, 310-317
MainEnterStep(m) ==
    IF m.mode = "plain"
    THEN LET chunks == chunk_text(m.input, m.chunk_size)
         IN  IF chunks = <<>>
             THEN [m EXCEPT !.pc = "raised"]
             ELSE StartChunks(m, IF m.max_chunks > 0
                                 THEN Take(chunks, m.max_chunks)
                                 ELSE chunks)
    ELSE [m EXCEPT !.pc = "page", !.translated_pages = <<>>,
                   !.limited = (m.max_chunks > 0),
                   !.remaining_chunks =
                      IF m.max_chunks > 0 THEN m.max_chunks ELSE 0]

\* lines 227-231 (soft layout) and 281-292 (preserve-pages): the head of
\* the loop over the pages
MainPageStep(m) ==
    IF m.page_index = Len(m.input) \/ BudgetSpent(m)
    THEN [m EXCEPT !.pc = "write"]
    ELSE IF m.mode = "soft"
         THEN [m EXCEPT !.pc = "block", !.page_index = @ + 1,
                        !.translated_blocks = <<>>, !.block_index = 0]
         ELSE LET page_chunks ==
                     chunk_text(m.input[m.page_index + 1], m.chunk_size)
                  n == [m EXCEPT !.page_index = @ + 1]
              IN  IF page_chunks = <<>>
                  THEN [n EXCEPT !.translated_pages = Append(@, <<>>)]
                  ELSE StartChunks(n, CutToBudget(m, page_chunks))

\* lines 232-243 and 265-268: the head of the loop over the blocks of a
\* page, and the end of the page when the loop is left
MainBlockStep(m) ==
    LET blocks == m.input[m.page_index]
    IN  IF m.block_index = Len(blocks) \/ BudgetSpent(m)
        THEN [m EXCEPT !.pc = IF BudgetSpent(m) THEN "write" ELSE "page",
                       !.translated_pages = Append(@, m.translated_blocks)]
        ELSE LET block == blocks[m.block_index + 1]
                 block_chunks == chunk_text(block, m.chunk_size)
                 n == [m EXCEPT !.block_index = @ + 1]
             IN  IF block_chunks = <<>>
                 THEN [n EXCEPT !.translated_blocks = Append(@, block)]
                 ELSE StartChunks(n, CutToBudget(m, block_chunks))

\* lines 244-253, 293-301, 318-320: one call of translate_chunk, which
\* returns a text or raises
MainTranslateStep(m, outcome) ==
    LET called == [m EXCEPT !.chunk_index = @ + 1,
                            !.calls = Append(@, [page |-> m.page_index,
                                                 block |-> m.block_index,
                                                 chunk |-> m.chunk_index + 1])]
    IN  IF outcome = "raise"
        THEN [called EXCEPT !.pc = "raised"]
        ELSE [called EXCEPT
                !.translated_chunks =
                   Append(@, <<"T">> \o m.chunks[m.chunk_index + 1]),
                !.remaining_chunks = IF m.limited THEN @ - 1 ELSE @]

\* lines 254-264, 302-305, 322: after the last chunk of a block, of a page
\* or of the text
MainChunksDoneStep(m) ==
    LET translated_text == JoinBlankLine(m.translated_chunks)
    IN  IF m.mode = "soft"
        THEN [m EXCEPT !.pc = "block",
                       !.translated_blocks = Append(@, translated_text)]
        ELSE IF m.mode = "preserve"
             THEN [m EXCEPT !.pc = IF BudgetSpent(m) THEN "write" ELSE "page",
                            !.translated_pages = Append(@, translated_text)]
             ELSE [m EXCEPT !.pc = "write"]

\* lines 270-272, 306-307, 322-323
MainWriteStep(m) ==
    IF m.mode = "soft"
    THEN [m EXCEPT !.pc = "ret",
                   !.page_sizes = Take(m.page_sizes, Len(m.translated_pages)),
                   !.written =
                      [fn |-> "write_pdf_layout", pages |-> m.translated_pages,
                       page_sizes |->
                          Take(m.page_sizes, Len(m.translated_pages))]]
    ELSE IF m.mode = "preserve"
         THEN [m EXCEPT !.pc = "ret",
                        !.written = [fn |-> "write_pdf_pages",
                                     pages |-> m.translated_pages]]
         ELSE [m EXCEPT !.pc = "ret",
                        !.written =
                           [fn |-> "write_pdf",
                            text |-> JoinBlankLine(m.translated_chunks)]]

-----------------------------------------------------------------------------
(* Specification SpecMain: one run of main in one of the three modes, on a *)
(* document of up to MaxMainPages pages; in soft layout mode a page has up *)
(* to MaxMainBlocks blocks.                                                *)

MaxMainPages == 2
MaxMainBlocks == 2
MaxMaxChunks == 3
MainChunkSize == 2

\* "", "a", "aaa": 0, 1 and 2 chunks of up to 2 characters
MainTexts == { <<>>, <<"a">>, <<"a", "a", "a">> }

\* (page.width, page.height) of the page numbered p
MainPageSize(p) == <<600 + p, 800>>

InitMain ==
    /\ \E max_chunks \in 0..MaxMaxChunks :
          \/ \E input \in SeqsUpTo(SeqsUpTo(MainTexts, MaxMainBlocks),
                                   MaxMainPages) :
                cli = MainCall("soft", max_chunks, MainChunkSize, input,
                               [p \in 1..Len(input) |-> MainPageSize(p)])
          \/ \E input \in SeqsUpTo(MainTexts, MaxMainPages) :
                cli = MainCall("preserve", max_chunks, MainChunkSize, input,
                               <<>>)
          \/ \E input \in MainTexts \cup {<<"a", "a", "a", "a", "a", "a", "a">>} :
                cli = MainCall("plain", max_chunks, MainChunkSize, input, <<>>)
    /\ tr = NoTranslate
    /\ ck = NoChunk
    /\ reg = NoRegistry
    /\ TextIdle
    /\ FitIdle
    /\ LayoutIdle
    /\ MergeIdle

MainEnter ==
    /\ cli.pc = "call"
    /\ cli' = MainEnterStep(cli)
    /\ UNCHANGED <<fitVars, layoutVars, mergeVars, pair, ex, typo, ser,
                   tr, ck, reg>>

MainPage ==
    /\ cli.pc = "page"
    /\ cli' = MainPageStep(cli)
    /\ UNCHANGED <<fitVars, layoutVars, mergeVars, pair, ex, typo, ser,
                   tr, ck, reg>>

MainBlock ==
    /\ cli.pc = "block"
    /\ cli' = MainBlockStep(cli)
    /\ UNCHANGED <<fitVars, layoutVars, mergeVars, pair, ex, typo, ser,
                   tr, ck, reg>>

MainTranslate ==
    /\ cli.pc = "chunk"
    /\ cli.chunk_index < Len(cli.chunks)
    /\ \E outcome \in {"return", "raise"} :
          cli' = MainTranslateStep(cli, outcome)
    /\ UNCHANGED <<fitVars, layoutVars, mergeVars, pair, ex, typo, ser,
                   tr, ck, reg>>

MainChunksDone ==
    /\ cli.pc = "chunk"
    /\ cli.chunk_index = Len(cli.chunks)
    /\ cli' = MainChunksDoneStep(cli)
    /\ UNCHANGED <<fitVars, layoutVars, mergeVars, pair, ex, typo, ser,
                   tr, ck, reg>>

MainWrite ==
    /\ cli.pc = "write"
    /\ cli' = MainWriteStep(cli)
    /\ UNCHANGED <<fitVars, layoutVars, mergeVars, pair, ex, typo, ser,
                   tr, ck, reg>>

NextMain ==
    MainEnter \/ MainPage \/ MainBlock \/ MainTranslate \/ MainChunksDone
       \/ MainWrite

SpecMain == InitMain /\ [][NextMain]_vars

-----------------------------------------------------------------------------
(* Reading the canvas and the history: the lines drawn for a block, the    *)
(* lines still queued for it, and the issues that are its own.             *)

AllGroups == Flatten(canvas)

\* the lines of the groups (or queued entries) that carry blk
RECURSIVE CountLines(_, _)
CountLines(groups, blk) ==
    IF groups = <<>>
    THEN 0
    ELSE (IF Head(groups).blk = blk THEN Len(Head(groups).lines) ELSE 0)
             + CountLines(Tail(groups), blk)

\* lines of block blk a drawing loop has passed over (a line "" is passed
\* over without a drawString call)
LinesDrawn(blk) == CountLines(AllGroups, blk)

\* input page p (from 0) is in its inner loop, or was when the call raised
PageOpen(p) == pc \in {"block", "raised"} /\ page_index = p

\* lines of block blk waiting in overflow_entries for the end of its page
LinesPending(blk) ==
    IF PageOpen(blk[1])
    THEN CountLines(overflow_entries, blk)
    ELSE 0

\* the wrapped lines of the block of h at the size it was rendered at
LinesWrapped(h) ==
    Len(_wrap_text(h.block.text, BoxWidth(h.block), h.plan.font_size))

\* wrapped lines of the block of h that are not drawn and will not be
LinesLost(h) == LinesWrapped(h) - LinesDrawn(h.blk) - LinesPending(h.blk)

\* the issues appended while the block of h was processed
BoxIssues(h) == h.issues_from .. h.issues_to

\* the issues appended for the block of h in the overflow area
AreaIssues(h) ==
    {area_hist[a].issue : a \in {b \in 1..Len(area_hist) :
                                    /\ area_hist[b].blk = h.blk
                                    /\ area_hist[b].issue > 0}}

IssuesOfType(idx, t) == {i \in idx : issues[i].issue_type = t}

-----------------------------------------------------------------------------
(* Claims.                                                                 *)

\* C1: when _fit_text_to_box returns, the returned font size is at least
\* min_size, whatever the text, the box, the ratio and base_size (also
\* below min_size), truncated or not.
FitSizeAtLeastMin ==
    fit.fpc = "ret" => fit.font_size >= fit.min_size

\* C1, its case: a truncated return for a base_size below min_size
FitSizeAtLeastMinCase ==
    /\ fit.fpc = "ret"
    /\ fit.base_size < fit.min_size
    /\ fit.truncated

TruncationOnlyOnLoss ==
    /\ (fit.fpc = "ret" /\ fit.truncated) => fit.remaining # <<>>
    /\ \A k \in 1..Len(hist) :
          hist[k].plan.fit_truncated => hist[k].plan.remaining # <<>>
    /\ \A i \in IssuesOfType(1..Len(issues), "truncation") :
          \E k \in 1..Len(hist) :
             /\ i \in BoxIssues(hist[k]) \cup AreaIssues(hist[k])
             /\ LinesLost(hist[k]) > 0

\* C3, its case: a report with a truncation issue from the overflow area,
\* for a block with lines drawn there and lines lost
TruncationOnlyOnLossCase ==
    /\ pc = "done"
    /\ \E k \in 1..Len(hist) :
          /\ IssuesOfType(AreaIssues(hist[k]), "truncation") # {}
          /\ LinesDrawn(hist[k].blk) > Len(hist[k].plan.lines)
          /\ LinesLost(hist[k]) > 0

\* C4 as stated: write_pdf_layout does not raise because a block cannot be
\* fitted, and in the returned report every block with a wrapped line that
\* is not drawn has a truncation issue of severity high with the block's
\* page number.
NoSilentLossNoRaise ==
    /\ pc # "raised"
    /\ pc = "done" =>
          \A k \in 1..Len(hist) :
             LinesLost(hist[k]) > 0 =>
                \E i \in 1..Len(report.issues) :
                   /\ report.issues[i].issue_type = "truncation"
                   /\ report.issues[i].severity = "high"
                   /\ report.issues[i].page_number = hist[k].blk[1] + 1

\* every block with text has been through the inner loop body
AllBlocksProcessed ==
    \A p \in 1..Len(pages) : \A j \in 1..Len(pages[p]) :
        \/ IsBlankText(pages[p][j].text)
        \/ \E k \in 1..Len(hist) : hist[k].blk = <<p - 1, j - 1>>

\* C5: for min_size > 0 a call of _fit_text_to_box reaches its return, and
\* a call of write_pdf_layout (whose min_size is then > 0 for every block)
\* processes every block of every page and returns a report.
FitterNeverBlocks ==
    /\ (fit.fpc = "call" /\ fit.min_size > 0) ~> (fit.fpc = "ret")
    /\ (pc = "page" /\ page_index = 0 /\ opts.min_font_size > 0)
          ~> (pc = "done" /\ AllBlocksProcessed /\ report # <<>>)

\* C5, its case: a report returned for a document with a block whose text
\* went through the shrink loop and the fallback
FitterNeverBlocksCase ==
    /\ pc = "done"
    /\ report # <<>>
    /\ opts.min_font_size > 0
    /\ \E k \in 1..Len(hist) : hist[k].plan.fit_truncated

\* the group drawn for block blk in its box, the one drawn in the overflow
\* area, and the canvas page a group is on
GroupOf(area, blk) ==
    CHOOSE g \in Range(AllGroups) : g.area = area /\ g.blk = blk

HasGroup(area, blk) ==
    \E g \in Range(AllGroups) : g.area = area /\ g.blk = blk

CanvasPageOf(area, blk) ==
    CHOOSE c \in 1..Len(canvas) :
        \E g \in Range(canvas[c]) : g.area = area /\ g.blk = blk

\* C6: with allow_page_overflow, a block whose last fit (after the gap retry
\* if any) is truncated gets no truncation issue in its page and exactly one
\* overflow_used issue, of severity low; its leftover lines are queued with
\* the font size and line height of the block and its x0, and once its page
\* is finished they are on a canvas page of their own right after the
\* block's page, before the page of any block of a later input page.
PageOverflowRouted ==
    \A k \in 1..Len(hist) :
       (opts.allow_page_overflow /\ hist[k].plan.fit_truncated) =>
          /\ IssuesOfType(BoxIssues(hist[k]), "truncation") = {}
          /\ Cardinality(IssuesOfType(BoxIssues(hist[k]), "overflow_used")) = 1
          /\ \A i \in IssuesOfType(BoxIssues(hist[k]), "overflow_used") :
                /\ issues[i].severity = "low"
                /\ issues[i].page_number = hist[k].blk[1] + 1
          /\ IF PageOpen(hist[k].blk[1])
             THEN \E e \in Range(overflow_entries) :
                     /\ e.blk = hist[k].blk
                     /\ hist[k].plan.lines \o e.lines =
                            _wrap_text(hist[k].block.text,
                                       BoxWidth(hist[k].block),
                                       hist[k].plan.font_size)
                     /\ e.font_size = GroupOf("box", hist[k].blk).font_size
                     /\ e.line_height = GroupOf("box", hist[k].blk).line_height
                     /\ e.x0 = hist[k].block.x0
             ELSE /\ HasGroup("overflow", hist[k].blk)
                  /\ GroupOf("overflow", hist[k].blk).font_size =
                         GroupOf("box", hist[k].blk).font_size
                  /\ GroupOf("overflow", hist[k].blk).line_height =
                         GroupOf("box", hist[k].blk).line_height
                  /\ GroupOf("overflow", hist[k].blk).x = hist[k].block.x0
                  /\ CanvasPageOf("overflow", hist[k].blk) =
                         CanvasPageOf("box", hist[k].blk) + 1
                  /\ \A g \in Range(canvas[CanvasPageOf("overflow", hist[k].blk)]) :
                         g.area = "overflow" /\ g.blk[1] = hist[k].blk[1]
                  /\ hist[k].blk[1] + 1 < Len(pages) =>
                         Len(canvas) > CanvasPageOf("overflow", hist[k].blk)
                  /\ \A m \in 1..Len(hist) :
                         hist[m].blk[1] > hist[k].blk[1] =>
                            CanvasPageOf("box", hist[m].blk) >
                                CanvasPageOf("overflow", hist[k].blk)

\* C6, its case: a report for a document where a block was retried in the
\* gap and queued its leftover, with an input page after its page
PageOverflowRoutedCase ==
    /\ pc = "done"
    /\ \E k \in 1..Len(hist) :
          /\ hist[k].plan.queued
          /\ hist[k].plan.retried
          /\ hist[k].blk[1] + 1 < Len(pages)

\* C7: a block has a font_scaled_down issue (one, of severity medium)
\* exactly when the size it is rendered at is below its resolved base size,
\* the heading-target-matched and heading-floored size.
ScaledDownIffBelowBase ==
    \A k \in 1..Len(hist) :
       /\ (IssuesOfType(BoxIssues(hist[k]), "font_scaled_down") # {})
             <=> (GroupOf("box", hist[k].blk).font_size <
                     ResolveSizes(hist[k].block, opts, profile).base_size)
       /\ Cardinality(IssuesOfType(BoxIssues(hist[k]), "font_scaled_down")) <= 1
       /\ \A i \in IssuesOfType(BoxIssues(hist[k]), "font_scaled_down") :
             /\ issues[i].severity = "medium"
             /\ issues[i].page_number = hist[k].blk[1] + 1

\* C7, its case: a report with a block scaled down and a block rendered at
\* its base size
ScaledDownIffBelowBaseCase ==
    /\ pc = "done"
    /\ \E k \in 1..Len(hist) :
          IssuesOfType(BoxIssues(hist[k]), "font_scaled_down") # {}
    /\ \E k \in 1..Len(hist) :
          /\ IssuesOfType(BoxIssues(hist[k]), "font_scaled_down") = {}
          /\ GroupOf("box", hist[k].blk).font_size =
                 ResolveSizes(hist[k].block, opts, profile).base_size

\* the block a group was drawn for
BlockOf(g) == pages[g.blk[1] + 1][g.blk[2] + 1]

\* C8: every group drawn for a block whose font_size is at least
\* body_font_size * 1.2 has a font size of at least min_font_size and at
\* least body_font_size * 1.2, in the box and in the overflow area; every
\* other group has a font size of at least min_font_size.
HeadingFloor ==
    \A g \in Range(AllGroups) :
       /\ g.font_size >= opts.min_font_size
       /\ (BlockOf(g).font_size * 100 >=
               profile.body_font_size * HEADING_SIZE_RATIO)
             => g.font_size * 100 >= profile.body_font_size * HEADING_SIZE_RATIO

\* C8, its case: a heading shrunk to a floor above min_font_size, with
\* leftover lines in the overflow area
HeadingFloorCase ==
    \E g \in Range(AllGroups) :
       /\ g.area = "overflow"
       /\ BlockOf(g).font_size * 100 >=
              profile.body_font_size * HEADING_SIZE_RATIO
       /\ g.font_size < BlockOf(g).font_size
       /\ g.font_size > opts.min_font_size

\* C9 as stated: merge_block_page_breaks applied to its own output changes
\* nothing, whatever the pages.
MergeBlocksIdempotent ==
    (merge_mode = "blocks" /\ merge_calls = 2) => merge_doc = merge_arg

\* C10 as stated: normalize_page_texts applied to its own output changes
\* nothing, whatever the page texts.
NormalizeIdempotent ==
    (merge_mode = "texts" /\ merge_calls = 2) => merge_doc = merge_arg

-----------------------------------------------------------------------------
(* The merge rules, as the claims word them.                                *)

\* after stripping spaces and dashes, only digits, and at most four
PageNumberLike(line) ==
    /\ StripChars(line, {" ", "-"}) # <<>>
    /\ Len(StripChars(line, {" ", "-"})) <= 4
    /\ \A i \in 1..Len(StripChars(line, {" ", "-"})) :
          StripChars(line, {" ", "-"})[i] \in Digits

\* at least four letters, all of them upper case, at most eight words
HeadingLike(line) ==
    /\ Cardinality({i \in 1..Len(line) : line[i] \in Lower \cup Upper}) >= 4
    /\ \A i \in 1..Len(line) : line[i] \notin Lower
    /\ Cardinality({i \in 1..Len(line) :
                       line[i] # " " /\ (i = 1 \/ line[i - 1] = " ")}) <= 8

Guarded(last_line, next_line) ==
    \/ PageNumberLike(last_line) \/ PageNumberLike(next_line)
    \/ HeadingLike(last_line) \/ HeadingLike(next_line)

\* the pages of blocks after the first n boundaries of merge_block_page_breaks
RECURSIVE MergePrefix(_, _)
MergePrefix(pgs, n) ==
    IF n = 0 THEN pgs ELSE MergeBoundary(MergePrefix(pgs, n - 1), n)

\* the lines of the pages as normalize_page_texts has them at line 68, one
\* pass of its loop, and the lines after the first n boundaries
LinesByPage(texts) ==
    [p \in 1..Len(texts) |-> SplitNewline(_merge_lines_in_text(texts[p]))]

NormalizeStep(lines_by_page, index) ==
    NormalizeAt(lines_by_page, index,
                last_non_empty_index(lines_by_page[index]),
                first_non_empty_index(lines_by_page[index + 1]))

RECURSIVE NormalizePrefix(_, _)
NormalizePrefix(lines_by_page, n) ==
    IF n = 0
    THEN lines_by_page
    ELSE NormalizeStep(NormalizePrefix(lines_by_page, n - 1), n)

\* the last non-empty line of a list of lines and the first one ("" if none)
LastLine(lines) ==
    IF last_non_empty_index(lines) = 0
    THEN <<>>
    ELSE lines[last_non_empty_index(lines)]

FirstLine(lines) ==
    IF first_non_empty_index(lines) = 0
    THEN <<>>
    ELSE lines[first_non_empty_index(lines)]

\* the lines of the last block of page i and of the first block of page i
LastBlockLines(pgs, i) ==
    IF pgs[i] = <<>> THEN <<>> ELSE SplitLines(pgs[i][Len(pgs[i])].text)

FirstBlockLines(pgs, i) ==
    IF pgs[i] = <<>> THEN <<>> ELSE SplitLines(pgs[i][1].text)

\* C11: should_merge_lines is false whenever one of the two lines looks like
\* a page number or like a heading, also when the last line ends with a
\* hyphen or the next one starts in lower case; and at a page boundary where
\* the two lines are such a pair, merge_block_page_breaks and
\* normalize_page_texts leave the pages as they are.
GuardsDominate ==
    /\ (pair.pc = "ret" /\ Guarded(pair.last_line, pair.next_line))
          => pair.result = FALSE
    /\ (merge_mode = "blocks" /\ merge_calls >= 1) =>
          /\ merge_doc = MergePrefix(merge_arg, Len(merge_arg) - 1)
          /\ \A i \in 1..(Len(merge_arg) - 1) :
                Guarded(LastLine(LastBlockLines(MergePrefix(merge_arg, i - 1), i)),
                        FirstLine(FirstBlockLines(MergePrefix(merge_arg, i - 1),
                                                  i + 1)))
                   => MergePrefix(merge_arg, i) = MergePrefix(merge_arg, i - 1)
    /\ (merge_mode = "texts" /\ merge_calls >= 1) =>
          /\ merge_doc = JoinAll(NormalizePrefix(LinesByPage(merge_arg),
                                                 Len(merge_arg) - 1))
          /\ \A i \in 1..(Len(merge_arg) - 1) :
                Guarded(LastLine(NormalizePrefix(LinesByPage(merge_arg),
                                                 i - 1)[i]),
                        FirstLine(NormalizePrefix(LinesByPage(merge_arg),
                                                  i - 1)[i + 1]))
                   => NormalizePrefix(LinesByPage(merge_arg), i) =
                          NormalizePrefix(LinesByPage(merge_arg), i - 1)

\* C11, its case: should_merge_lines("hyphen-", "12") has returned
GuardsDominateCase ==
    /\ pair.pc = "ret"
    /\ pair.last_line = <<"h", "y", "p", "h", "e", "n", "-">>
    /\ pair.next_line = <<"1", "2">>
    /\ ~pair.result

\* first letter of the line, if any, is a lower-case one
FirstLetterLower(line) ==
    \E i \in 1..Len(line) :
       /\ line[i] \in Lower
       /\ \A j \in 1..(i - 1) : line[j] \notin Lower \cup Upper

\* the text of the line ends with '.', '!' or '?', or with one of " ' ) ]
\* right after one of those
SentenceFinal(line) ==
    /\ Strip(line) # <<>>
    /\ \/ Strip(line)[Len(Strip(line))] \in {".", "!", "?"}
       \/ /\ Len(Strip(line)) >= 2
          /\ Strip(line)[Len(Strip(line))] \in {"\"", "'", ")", "]"}
          /\ Strip(line)[Len(Strip(line)) - 1] \in {".", "!", "?"}

\* C12: for two lines that pass both guards, should_merge_lines is true
\* exactly when the last line ends with '-', or the first letter of the next
\* line is lower case, or the last line does not end with sentence-final
\* punctuation; and "123 456" is not taken for a page number.
MergeRule ==
    /\ (pair.pc = "ret" /\ ~Guarded(pair.last_line, pair.next_line)) =>
          (pair.result <=>
              \/ (pair.last_line # <<>>
                  /\ pair.last_line[Len(pair.last_line)] = "-")
              \/ FirstLetterLower(pair.next_line)
              \/ ~SentenceFinal(pair.last_line))
    /\ (pair.pc = "ret"
        /\ pair.last_line = <<"1", "2", "3", " ", "4", "5", "6">>) =>
          /\ ~looks_like_page_number(pair.last_line)
          /\ ~Guarded(pair.last_line, pair.next_line) => pair.result

\* C12, its case: a last line that ends a sentence, merged because the next
\* line's first letter, after a bracket, is lower case
MergeRuleCase ==
    /\ pair.pc = "ret"
    /\ SentenceFinal(pair.last_line)
    /\ pair.next_line = <<"(", "s", "o">>
    /\ ~Guarded(pair.last_line, pair.next_line)
    /\ pair.result

\* the first white-space-delimited token of a line and what follows the
\* white space after it
TokenEnd(line) ==
    CHOOSE k \in 1..Len(line) :
        /\ \A j \in 1..k : line[j] \notin Whitespace
        /\ k = Len(line) \/ line[k + 1] \in Whitespace

FirstToken(line) == SubSeq(LStrip(line), 1, TokenEnd(LStrip(line)))

AfterToken(line) ==
    LStrip(SubSeq(LStrip(line), TokenEnd(LStrip(line)) + 1, Len(LStrip(line))))

\* the line without its last character, and the lines that are not blank
Most(line) == SubSeq(line, 1, Len(line) - 1)

NonBlank(lines) == SelectSeq(lines, LAMBDA l : Strip(l) # <<>>)

\* the boundary after page i is a hyphenated break that may be merged
HyphenBreak(last_line, next_line) ==
    /\ last_line # <<>>
    /\ next_line # <<>>
    /\ EndsWithHyphen(RStrip(last_line))
    /\ ~Guarded(last_line, next_line)

\* block b as block a with another text
SameBox(a, b) == [a EXCEPT !.text = <<>>] = [b EXCEPT !.text = <<>>]

\* merge_block_page_breaks, from pages u to pages v at the boundary after
\* page i: the hyphen is dropped and the first token of the next line
\* appended; the rest of that line stays first in its block, or the line
\* goes, and with its last line the block
HyphenMergedBlocks(u, v, i, last_lines, next_lines) ==
    /\ \A p \in 1..Len(u) : p \notin {i, i + 1} => v[p] = u[p]
    /\ Len(v[i]) = Len(u[i])
    /\ \A j \in 1..(Len(u[i]) - 1) : v[i][j] = u[i][j]
    /\ SameBox(u[i][Len(u[i])], v[i][Len(u[i])])
    /\ NonBlank(SplitLines(v[i][Len(u[i])].text)) =
          Most(NonBlank(last_lines))
             \o << Most(RStrip(LastLine(last_lines)))
                      \o FirstToken(FirstLine(next_lines)) >>
    /\ IF AfterToken(FirstLine(next_lines)) = <<>>
          /\ Len(NonBlank(next_lines)) = 1
       THEN v[i + 1] = Tail(u[i + 1])
       ELSE /\ Len(v[i + 1]) = Len(u[i + 1])
            /\ \A j \in 2..Len(u[i + 1]) : v[i + 1][j] = u[i + 1][j]
            /\ SameBox(u[i + 1][1], v[i + 1][1])
            /\ NonBlank(SplitLines(v[i + 1][1].text)) =
                  IF AfterToken(FirstLine(next_lines)) = <<>>
                  THEN Tail(NonBlank(next_lines))
                  ELSE << AfterToken(FirstLine(next_lines)) >>
                          \o Tail(NonBlank(next_lines))

\* normalize_page_texts, from lines u to lines v at the boundary after page i
HyphenMergedLines(u, v, i) ==
    /\ \A p \in 1..Len(u) : p \notin {i, i + 1} => v[p] = u[p]
    /\ v[i] = Most(u[i])
                 \o << Most(RStrip(LastLine(u[i])))
                          \o FirstToken(FirstLine(u[i + 1])) >>
    /\ v[i + 1] = IF AfterToken(FirstLine(u[i + 1])) = <<>>
                  THEN Tail(u[i + 1])
                  ELSE << AfterToken(FirstLine(u[i + 1])) >> \o Tail(u[i + 1])

\* C13: at a page boundary where the last non-empty line of page i ends
\* with '-' and the merge is allowed, both mergers drop the hyphen and append
\* only the first token of the first non-empty line of page i + 1; the rest
\* of that line stays where it was, a line with nothing left is deleted and a
\* block with no text left is removed; "hyphen-" / "ated word." becomes
\* "hyphenated" / "word.".
HyphenMergeMechanics ==
    /\ (merge_mode = "blocks" /\ merge_calls >= 1) =>
          \A i \in 1..(Len(merge_arg) - 1) :
             HyphenBreak(
                 LastLine(LastBlockLines(MergePrefix(merge_arg, i - 1), i)),
                 FirstLine(FirstBlockLines(MergePrefix(merge_arg, i - 1), i + 1)))
             => HyphenMergedBlocks(
                    MergePrefix(merge_arg, i - 1), MergePrefix(merge_arg, i), i,
                    LastBlockLines(MergePrefix(merge_arg, i - 1), i),
                    FirstBlockLines(MergePrefix(merge_arg, i - 1), i + 1))
    /\ (merge_mode = "texts" /\ merge_calls >= 1) =>
          /\ \A i \in 1..(Len(merge_arg) - 1) :
                HyphenBreak(
                    LastLine(NormalizePrefix(LinesByPage(merge_arg), i - 1)[i]),
                    FirstLine(NormalizePrefix(LinesByPage(merge_arg), i - 1)[i + 1]))
                => HyphenMergedLines(
                       NormalizePrefix(LinesByPage(merge_arg), i - 1),
                       NormalizePrefix(LinesByPage(merge_arg), i), i)
          /\ merge_arg = << <<"h", "y", "p", "h", "e", "n", "-">>,
                            <<"a", "t", "e", "d", " ", "w", "o", "r", "d", ".">> >>
                => merge_doc = << <<"h", "y", "p", "h", "e", "n", "a", "t", "e", "d">>,
                                  <<"w", "o", "r", "d", ".">> >>

\* C13, its case: normalize_page_texts has returned for the two pages
\* "hyphen-" and "ated word."
HyphenMergeMechanicsCase ==
    /\ merge_mode = "texts"
    /\ merge_calls = 1
    /\ merge_arg = << <<"h", "y", "p", "h", "e", "n", "-">>,
                      <<"a", "t", "e", "d", " ", "w", "o", "r", "d", ".">> >>
    /\ HyphenBreak(merge_arg[1], merge_arg[2])

\* the boundary is a continuation without a hyphen that may be merged
PlainContinuation(last_line, next_line) ==
    /\ last_line # <<>>
    /\ next_line # <<>>
    /\ ~EndsWithHyphen(RStrip(last_line))
    /\ ~Guarded(last_line, next_line)
    /\ FirstLetterLower(next_line) \/ ~SentenceFinal(last_line)

\* C14: at a page boundary that is a continuation without a hyphen,
\* merge_block_page_breaks leaves the pages as they are, and
\* normalize_page_texts appends the whole first line of page i + 1 to the
\* last line of page i after one space and deletes it from page i + 1.
PlainContinuationBySite ==
    /\ (merge_mode = "blocks" /\ merge_calls >= 1) =>
          \A i \in 1..(Len(merge_arg) - 1) :
             PlainContinuation(
                 LastLine(LastBlockLines(MergePrefix(merge_arg, i - 1), i)),
                 FirstLine(FirstBlockLines(MergePrefix(merge_arg, i - 1), i + 1)))
             => MergePrefix(merge_arg, i) = MergePrefix(merge_arg, i - 1)
    /\ (merge_mode = "texts" /\ merge_calls >= 1) =>
          \A i \in 1..(Len(merge_arg) - 1) :
             PlainContinuation(
                 LastLine(NormalizePrefix(LinesByPage(merge_arg), i - 1)[i]),
                 FirstLine(NormalizePrefix(LinesByPage(merge_arg), i - 1)[i + 1]))
             => /\ \A p \in 1..Len(merge_arg) :
                      p \notin {i, i + 1} =>
                         NormalizePrefix(LinesByPage(merge_arg), i)[p] =
                            NormalizePrefix(LinesByPage(merge_arg), i - 1)[p]
                /\ NormalizePrefix(LinesByPage(merge_arg), i)[i] =
                      Most(NormalizePrefix(LinesByPage(merge_arg), i - 1)[i])
                         \o << RStrip(LastLine(NormalizePrefix(
                                          LinesByPage(merge_arg), i - 1)[i]))
                               \o <<" ">>
                               \o LStrip(FirstLine(NormalizePrefix(
                                          LinesByPage(merge_arg), i - 1)[i + 1])) >>
                /\ NormalizePrefix(LinesByPage(merge_arg), i)[i + 1] =
                      Tail(NormalizePrefix(LinesByPage(merge_arg), i - 1)[i + 1])

\* C14, its case: normalize_page_texts has returned "ab cd" / "ef" for
\* "ab" / "cd\n\nef"
PlainContinuationBySiteCase ==
    /\ merge_mode = "texts"
    /\ merge_calls = 1
    /\ merge_arg = << <<"a", "b">>, <<"c", "d", "\n", "\n", "e", "f">> >>
    /\ PlainContinuation(merge_arg[1], <<"c", "d">>)
    /\ merge_doc = << <<"a", "b", " ", "c", "d">>, <<"e", "f">> >>

-----------------------------------------------------------------------------
(* The extraction claims.                                                   *)

\* the word of the page with the given text (the texts of the sample words
\* differ), and the number of times a text stands in the lines
WordOf(text) == CHOOSE w \in Range(ex.words) : w.text = text

TimesInLines(text) ==
    Cardinality({lk \in (1..Len(ex.lines)) \X (1..Len(ex.words)) :
                    /\ lk[2] <= Len(ex.lines[lk[1]].text)
                    /\ ex.lines[lk[1]].text[lk[2]] = text})

\* C15: the lines _words_to_lines returns are sorted by (top, x0), every
\* word is in exactly one of them, every word of a line has its top within
\* y_tolerance of the line's top, and no word gives no line.
WordsToLinesSound ==
    ex.pc \in {"lines", "columns", "blocks"} =>
       /\ \A i \in 1..(Len(ex.lines) - 1) :
             \/ ex.lines[i].top < ex.lines[i + 1].top
             \/ /\ ex.lines[i].top = ex.lines[i + 1].top
                /\ ex.lines[i].x0 <= ex.lines[i + 1].x0
       /\ \A w \in 1..Len(ex.words) : TimesInLines(ex.words[w].text) = 1
       /\ Len(Flatten([l \in 1..Len(ex.lines) |-> ex.lines[l].text]))
             = Len(ex.words)
       /\ \A l \in 1..Len(ex.lines) : \A k \in 1..Len(ex.lines[l].text) :
             Abs(WordOf(ex.lines[l].text[k]).top - ex.lines[l].top)
                <= y_tolerance
       /\ ex.words = <<>> => ex.lines = <<>>

\* C15, its case: a line of three words, and a word 3 pt below the line's
\* top, 1.1 pt below its last word, in a line of its own
WordsToLinesSoundCase ==
    /\ ex.pc = "lines"
    /\ \E l \in 1..(Len(ex.lines) - 1) :
          /\ Len(ex.lines[l].text) = 3
          /\ ex.lines[l + 1].top - ex.lines[l].top = 300

\* the largest gap between adjacent distinct rounded x0 values of the lines
\* (0 when there are not two), and twice the middle of the first such gap
RoundedSet(lines) == {Round1(lines[i].x0) : i \in 1..Len(lines)}

AdjacentX0s(lines) ==
    {ab \in RoundedSet(lines) \X RoundedSet(lines) :
        /\ ab[1] < ab[2]
        /\ \A c \in RoundedSet(lines) : ~(ab[1] < c /\ c < ab[2])}

LargestGap(lines) ==
    IF AdjacentX0s(lines) = {}
    THEN 0
    ELSE CHOOSE g \in {ab[2] - ab[1] : ab \in AdjacentX0s(lines)} :
            \A ab \in AdjacentX0s(lines) : ab[2] - ab[1] <= g

TwiceSplitPoint(lines) ==
    CHOOSE s \in {ab[1] + ab[2] : ab \in AdjacentX0s(lines)} :
        \E ab \in AdjacentX0s(lines) :
           /\ s = ab[1] + ab[2]
           /\ ab[2] - ab[1] = LargestGap(lines)
           /\ \A cd \in AdjacentX0s(lines) :
                 cd[2] - cd[1] = LargestGap(lines) => ab[1] <= cd[1]

\* C16: _split_columns returns the one group it was given when there are
\* fewer than 6 lines or the largest gap is below 0.2 * page_width; when it
\* returns two groups each has at least 3 lines, they are disjoint and
\* together hold the lines given, and the split point has the left group's
\* x0 below it and the right group's at or above it.
ColumnsSound ==
    ex.pc \in {"columns", "blocks"} =>
       /\ Len(ex.columns) \in {1, 2}
       /\ (Len(ex.lines) < 6 \/ 5 * LargestGap(ex.lines) < ex.page_width)
             => ex.columns = << ex.lines >>
       /\ Len(ex.columns) = 1 => ex.columns[1] = ex.lines
       /\ Len(ex.columns) = 2 =>
             /\ Len(ex.columns[1]) >= 3
             /\ Len(ex.columns[2]) >= 3
             /\ Range(ex.columns[1]) \cap Range(ex.columns[2]) = {}
             /\ Range(ex.columns[1]) \cup Range(ex.columns[2]) = Range(ex.lines)
             /\ Len(ex.columns[1]) + Len(ex.columns[2]) = Len(ex.lines)
             /\ \A line \in Range(ex.columns[1]) :
                   2 * line.x0 < TwiceSplitPoint(ex.lines)
             /\ \A line \in Range(ex.columns[2]) :
                   2 * line.x0 >= TwiceSplitPoint(ex.lines)

\* C16, its case: two columns, a line at x0 72.03 in the left one
ColumnsSoundCase ==
    /\ ex.pc = "columns"
    /\ Len(ex.columns) = 2
    /\ \E line \in Range(ex.columns[1]) : line.x0 = 7203

\* the median line height of a column, and whether its lines i and j are in
\* one block of the page
MedianHeight(column) == StatMedian(LineHeights(column))

SameBlock(column, i, j) ==
    \E b \in 1..Len(ex.blocks) :
       /\ column[i].text \in Range(ex.blocks[b].text)
       /\ column[j].text \in Range(ex.blocks[b].text)

\* the lower line's top minus the upper line's bottom, within the threshold
Near(column, i, j) ==
    2 * (column[j].top - column[i].bottom) <= 3 * MedianHeight(column)

\* C17 as stated: any two lines of a column, the upper one first, are in
\* one block exactly when their vertical distance is within 1.5 times the
\* median line height.
BlocksByGapAnyTwo ==
    ex.pc = "blocks" =>
       \A c \in 1..Len(ex.columns) :
          \A i \in 1..Len(ex.columns[c]) :
             \A j \in (i + 1)..Len(ex.columns[c]) :
                SameBlock(ex.columns[c], i, j) <=> Near(ex.columns[c], i, j)

\* C17, amended: the lines of a column are in (top, x0) order, and two of
\* them are in one block exactly when every two lines next to each other
\* from the upper to the lower one are within the threshold.
BlocksByGapAdjacent ==
    ex.pc = "blocks" =>
       \A c \in 1..Len(ex.columns) :
          /\ \A i \in 1..(Len(ex.columns[c]) - 1) :
                KeyLess(<<ex.columns[c][i].top, ex.columns[c][i].x0>>,
                        <<ex.columns[c][i + 1].top, ex.columns[c][i + 1].x0>>)
          /\ \A i \in 1..Len(ex.columns[c]) :
                \A j \in (i + 1)..Len(ex.columns[c]) :
                   SameBlock(ex.columns[c], i, j) <=>
                      \A k \in i..(j - 1) : Near(ex.columns[c], k, k + 1)

\* C17, its case: a column with two lines of one block further apart than
\* the threshold, and two lines of two blocks within it
BlocksByGapAdjacentCase ==
    /\ ex.pc = "blocks"
    /\ \E c \in 1..Len(ex.columns) :
          /\ \E i, j \in 1..Len(ex.columns[c]) :
                /\ i < j
                /\ SameBlock(ex.columns[c], i, j)
                /\ ~Near(ex.columns[c], i, j)
          /\ \E i, j \in 1..Len(ex.columns[c]) :
                /\ i < j
                /\ ~SameBlock(ex.columns[c], i, j)
                /\ Near(ex.columns[c], i, j)

-----------------------------------------------------------------------------
(* The typography profile claims.                                           *)

\* C18: every heading target of the profile is at least 1.2 times its body
\* font size.
HeadingTargetsAboveThreshold ==
    typo.pc = "ret" =>
       \A t \in 1..Len(typo.profile.heading_targets) :
          typo.profile.heading_targets[t] * 100
             >= typo.profile.body_font_size * 120

\* C18, its case: a document with a block below the heading threshold and
\* above the body size, and a heading target
HeadingTargetsAboveThresholdCase ==
    /\ typo.pc = "ret"
    /\ typo.profile.heading_targets # <<>>
    /\ \E p \in 1..Len(typo.pages) : \E b \in 1..Len(typo.pages[p]) :
          /\ typo.pages[p][b].font_size > typo.profile.body_font_size
          /\ typo.pages[p][b].font_size * 100
                < typo.profile.body_font_size * 120

\* the non-zero font sizes of the document in ascending order, and the ones
\* at or above 1.2 times the body size
DocumentSizes == SortedSizes(SelectSeq(AllFontSizes(typo.pages), NonZero))

HeadingSizes ==
    SelectSeq(DocumentSizes,
              LAMBDA v : v * 100 >= typo.profile.body_font_size * 120)

\* the places where a cluster of the heading sizes starts, and the k-th
\* cluster
ClusterStarts ==
    {i \in 1..Len(HeadingSizes) :
        i = 1 \/ HeadingSizes[i] - HeadingSizes[i - 1] > 50}

ClusterOf(k) ==
    LET start == CHOOSE i \in ClusterStarts :
                     Cardinality({j \in ClusterStarts : j < i}) = k - 1
        later == {j \in ClusterStarts : j > start}
        end == IF later = {} THEN Len(HeadingSizes)
               ELSE (CHOOSE j \in later : \A l \in later : j <= l) - 1
    IN  SubSeq(HeadingSizes, start, end)

\* C19: the body size is 11.0 without sizes, the smallest size when the
\* largest is at least 1.2 times it, and the median of the sizes otherwise;
\* the heading sizes whose sorted neighbours differ by at most 0.5 are one
\* cluster, with one target, its median; sizes 14.1, 14.3 and 10.0 give
\* body 10.0 and the one target 14.2.
BodySizeInference ==
    typo.pc = "ret" =>
       LET n == Len(DocumentSizes)
       IN  /\ n = 0 => typo.profile.body_font_size = 1100
           /\ (n > 0 /\ DocumentSizes[n] * 100 >= DocumentSizes[1] * 120)
                 => typo.profile.body_font_size = DocumentSizes[1]
           /\ (n > 0 /\ DocumentSizes[n] * 100 < DocumentSizes[1] * 120)
                 => typo.profile.body_font_size = StatMedian(DocumentSizes)
           /\ Len(typo.profile.heading_targets) = Cardinality(ClusterStarts)
           /\ \A k \in 1..Cardinality(ClusterStarts) :
                 typo.profile.heading_targets[k] = StatMedian(ClusterOf(k))
           /\ AllFontSizes(typo.pages) = <<1410, 1430, 1000>>
                 => typo.profile = [body_font_size |-> 1000,
                                    heading_targets |-> <<1420>>]

\* C19, its case: the sizes 14.1, 14.3 and 10.0
BodySizeInferenceCase ==
    /\ typo.pc = "ret"
    /\ AllFontSizes(typo.pages) = <<1410, 1430, 1000>>
    /\ typo.profile.heading_targets = <<1420>>

-----------------------------------------------------------------------------
(* The report claim.                                                        *)

\* a summary as a mapping: the set of its (key, count) pairs
AsMapping(summary) == Range(summary)

\* the values written for a key, in the order of the file
ValuesOf(out, key) ==
    LET at == SelectSeq([i \in 1..Len(out) |-> i],
                        LAMBDA i : /\ i + 3 <= Len(out)
                                   /\ out[i] = key
                                   /\ out[i + 1] = "\""
                                   /\ out[i + 2] = ":")
    IN  [k \in 1..Len(at) |->
            IF out[at[k] + 3] = "\"" THEN out[at[k] + 4] ELSE out[at[k] + 3]]

IssuesKept(rep, out) ==
    /\ ValuesOf(out, "description")
          = [i \in 1..Len(rep.issues) |-> rep.issues[i].description]
    /\ ValuesOf(out, "page_number")
          = [i \in 1..Len(rep.issues) |->
                ToString(rep.issues[i].page_number)]

\* C20: two reports with the same run_id, the same issue list and summaries
\* that are equal as mappings are written as the same output, whatever the
\* insertion order of the summaries' keys; the issues are written in the
\* order of the issue list.
ReportDeterministic ==
    ser.pc = "done" =>
       /\ (/\ ser.first.run_id = ser.second.run_id
           /\ ser.first.issues = ser.second.issues
           /\ AsMapping(ser.first.summary) = AsMapping(ser.second.summary))
             => ser.first_out = ser.second_out
       /\ IssuesKept(ser.first, ser.first_out)
       /\ IssuesKept(ser.second, ser.second_out)

\* C20, its case: the same two issues, two keys inserted in the two orders
ReportDeterministicCase ==
    /\ ser.pc = "done"
    /\ Len(ser.first.issues) = 2
    /\ ser.first.issues[1] # ser.first.issues[2]
    /\ ser.first.issues = ser.second.issues
    /\ Len(ser.first.summary) = 2
    /\ ser.second.summary = Reversed(ser.first.summary)
    /\ ser.first_out = ser.second_out

-----------------------------------------------------------------------------
(* The heading targets of a document.                                       *)

\* the targets within HEADING_TOLERANCE of a size
TargetsNear(size) ==
    {k \in 1..Len(typo.profile.heading_targets) :
        Abs(typo.profile.heading_targets[k] - size) <= HEADING_TOLERANCE}

\* C30: for a document with a positive block font size there are heading
\* targets exactly when the largest size is at least 1.2 times the
\* smallest; when the body size is the median no block reaches the heading
\* threshold; neighbouring targets increase by more than 0.5, and a block
\* size of the document is within the tolerance of at most one target.
TargetsSeparated ==
    (typo.pc = "ret" /\ DocumentSizes # <<>>) =>
       LET n == Len(DocumentSizes)
           targets == typo.profile.heading_targets
       IN  /\ targets # <<>>
                 <=> DocumentSizes[n] * 100 >= DocumentSizes[1] * 120
           /\ DocumentSizes[n] * 100 < DocumentSizes[1] * 120
                 => /\ typo.profile.body_font_size = StatMedian(DocumentSizes)
                    /\ \A i \in 1..n :
                          DocumentSizes[i] * 100
                             < typo.profile.body_font_size * 120
           /\ \A k \in 1..(Len(targets) - 1) :
                 targets[k + 1] - targets[k] > 50
           /\ \A i \in 1..n : Cardinality(TargetsNear(DocumentSizes[i])) <= 1

\* C30, its case: two targets less than 1.0 apart, and a block size within
\* the tolerance of one of them
TargetsSeparatedCase ==
    /\ typo.pc = "ret"
    /\ Len(typo.profile.heading_targets) = 2
    /\ typo.profile.heading_targets[2] - typo.profile.heading_targets[1] < 100
    /\ \E i \in 1..Len(DocumentSizes) :
          /\ DocumentSizes[i] \notin Range(typo.profile.heading_targets)
          /\ Cardinality(TargetsNear(DocumentSizes[i])) = 1

-----------------------------------------------------------------------------
(* The search of _fit_text_to_box.                                          *)

\* the first candidate size, the number of the last one (the sizes are
\* first, first - 0.5, ... as long as they are at least min_size), the k-th
\* size, and whether the text wrapped at a size fits with a ratio
FirstSize(f) == IF f.base_size >= f.min_size THEN f.base_size ELSE f.min_size

LastCandidate(f) == (FirstSize(f) - f.min_size) \div 50

SizeOf(f, k) == FirstSize(f) - 50 * k

FitsAt(f, size, ratio) ==
    Len(_wrap_text(f.text, f.max_width, size)) * size * ratio
       <= f.max_height * 100

RequestedOrTight(f) == IF f.ratio_index = 1 THEN f.line_height_ratio ELSE 105

\* the returned tuple is the candidate (size, ratio)
ReturnsCandidate(f, size, ratio) ==
    /\ f.fpc = "ret"
    /\ f.font_size = size
    /\ f.line_height = size * ratio
    /\ f.lines = _wrap_text(f.text, f.max_width, size)
    /\ f.truncated = FALSE
    /\ f.remaining = <<>>

\* at the return: no larger candidate size fits with either ratio, and when
\* a candidate fits the result is the first one that does
FirstFittingReturned ==
    fit.fpc = "ret" =>
       /\ \A k \in 0..LastCandidate(fit) :
             SizeOf(fit, k) > fit.font_size =>
                /\ ~FitsAt(fit, SizeOf(fit, k), fit.line_height_ratio)
                /\ ~FitsAt(fit, SizeOf(fit, k), 105)
       /\ (\E k \in 0..LastCandidate(fit) :
              \/ FitsAt(fit, SizeOf(fit, k), fit.line_height_ratio)
              \/ FitsAt(fit, SizeOf(fit, k), 105))
             => \E k \in 0..LastCandidate(fit) :
                   IF FitsAt(fit, SizeOf(fit, k), fit.line_height_ratio)
                   THEN ReturnsCandidate(fit, SizeOf(fit, k),
                                         fit.line_height_ratio)
                   ELSE /\ FitsAt(fit, SizeOf(fit, k), 105)
                        /\ ReturnsCandidate(fit, SizeOf(fit, k), 105)

\* a step of the search: the first candidate is max(base_size, min_size)
\* with the requested ratio; a candidate that does not fit is followed by
\* the same size with the tight ratio, then by the size 0.5 below with the
\* requested ratio; a candidate that fits is returned
SearchStep ==
    /\ (fit.fpc = "call" /\ fit'.fpc # "call") =>
          /\ fit'.fpc = "loop"
          /\ fit'.font_size = FirstSize(fit)
          /\ fit'.ratio_index = 1
    /\ (fit.fpc = "loop" /\ fit.font_size >= fit.min_size
           /\ fit' # fit) =>
          IF FitsAt(fit, fit.font_size, RequestedOrTight(fit))
          THEN ReturnsCandidate(fit', fit.font_size, RequestedOrTight(fit))
          ELSE /\ fit'.fpc = "loop"
               /\ fit.ratio_index = 1 =>
                     /\ fit'.font_size = fit.font_size
                     /\ fit'.ratio_index = 2
               /\ fit.ratio_index = 2 =>
                     /\ fit'.font_size = fit.font_size - 50
                     /\ fit'.ratio_index = 1

\* C24: the candidates are tried from max(base_size, min_size) down in
\* steps of 0.5, each size with the requested ratio and then with 1.05;
\* the result is the first candidate that fits, so no larger candidate
\* size fits with either ratio and the requested ratio is kept whenever it
\* fits at the chosen size.
FitSearchOrder == [][SearchStep]_vars /\ []FirstFittingReturned

\* C24, its case: the result is a size below the first one and above
\* min_size, with the tight ratio, the requested ratio being another one
FitSearchOrderCase ==
    /\ fit.fpc = "ret"
    /\ fit.truncated = FALSE
    /\ fit.font_size < FirstSize(fit)
    /\ fit.font_size > fit.min_size
    /\ fit.line_height = fit.font_size * 105
    /\ fit.line_height_ratio # 105

\* C24 as stated, for every return: the requested ratio is kept whenever it
\* fits at the chosen size.
RequestedRatioKept ==
    fit.fpc = "ret" =>
       (FitsAt(fit, fit.font_size, fit.line_height_ratio)
           => fit.line_height = fit.font_size * fit.line_height_ratio)

-----------------------------------------------------------------------------
(* The fallback of _fit_text_to_box.                                        *)

\* the return of the fallback that keeps the first n lines of the text
\* wrapped at min_size
FallbackKeeps(f, g, n) ==
    LET full == _wrap_text(f.text, f.max_width, f.min_size)
        kept == IF n < Len(full) THEN n ELSE Len(full)
    IN  /\ g.fpc = "ret"
        /\ g.font_size = f.min_size
        /\ g.line_height = f.min_size * 105
        /\ g.lines = SubSeq(full, 1, kept)
        /\ g.remaining = SubSeq(full, kept + 1, Len(full))
        /\ g.lines \o g.remaining = full
        /\ g.truncated = (Len(full) > n)

\* floor(max_height / line_height) at min_size
FloorLines(f) == (f.max_height * 100) \div (f.min_size * 105)

FallbackStep ==
    (fit.fpc = "loop" /\ fit.font_size < fit.min_size /\ fit' # fit) =>
       IF fit.min_size * 105 = 0
       THEN fit'.fpc = "raise"
       ELSE FallbackKeeps(fit, fit',
                          IF FloorLines(fit) > 1 THEN FloorLines(fit) ELSE 1)

FallbackOneLineCase ==
    /\ fit.fpc = "ret"
    /\ fit.truncated
    /\ Len(fit.lines) = 1
    /\ fit.line_height > fit.max_height * 100

-----------------------------------------------------------------------------
(* The order of the issues.                                                 *)

TypeRank(issue) ==
    CASE issue.issue_type = "overflow_used" -> 1
      [] issue.issue_type = "truncation" -> 2
      [] issue.issue_type = "font_scaled_down" -> 3

\* C26: along the issue list the page numbers do not decrease, the issues
\* of a block and the truncation issues of the overflow area carry the
\* number of their page, the issues of one block come in the order
\* overflow_used, truncation, font_scaled_down, and the report returns the
\* list as it was appended.
IssuesInDocumentOrder ==
    /\ \A i \in 1..(Len(issues) - 1) :
          issues[i].page_number <= issues[i + 1].page_number
    /\ \A k \in 1..Len(hist) :
          /\ \A i \in BoxIssues(hist[k]) :
                issues[i].page_number = hist[k].blk[1] + 1
          /\ \A i, j \in BoxIssues(hist[k]) :
                i < j => TypeRank(issues[i]) < TypeRank(issues[j])
          /\ \A a \in AreaIssues(hist[k]) :
                /\ issues[a] = AreaIssue(hist[k].blk[1])
                /\ \A l \in 1..Len(hist) : \A i \in BoxIssues(hist[l]) :
                      /\ hist[l].blk[1] <= hist[k].blk[1] => i < a
                      /\ hist[l].blk[1] > hist[k].blk[1] => a < i
    /\ pc = "done" => report.issues = issues

\* C26, its case: a truncation issue of the overflow area of page 1, and
\* after it two issues of one block of page 2
IssuesInDocumentOrderCase ==
    /\ pc = "done"
    /\ \E k, l \in 1..Len(hist) :
          /\ hist[k].blk[1] = 0
          /\ hist[l].blk[1] = 1
          /\ AreaIssues(hist[k]) # {}
          /\ Cardinality(BoxIssues(hist[l])) >= 2

\* a block with the three issues
ThreeIssuesCase ==
    \E k \in 1..Len(hist) : Cardinality(BoxIssues(hist[k])) = 3

-----------------------------------------------------------------------------
(* The frame of merge_block_page_breaks.                                    *)

\* page `out` is page `inp` without its first drop_first and its last
\* drop_last blocks; the blocks left keep their boxes and font sizes, and
\* only a block that is the last of its page (when a page follows) or the
\* first of its page (when a page precedes) can have another text
PageFrame(inp, out, drop_first, drop_last, has_before, has_after) ==
    /\ Len(out) = Len(inp) - drop_first - drop_last
    /\ drop_first = 1 => has_before
    /\ drop_last = 1 => has_after
    /\ \A j \in 1..Len(out) :
          /\ SameBox(out[j], inp[j + drop_first])
          /\ out[j] # inp[j + drop_first] =>
                \/ j + drop_first = Len(inp) /\ has_after
                \/ j + drop_first = 1 /\ has_before

\* a call of merge_block_page_breaks, from its argument merge_doc to the
\* pages returned merge_doc' and the argument as it is left merge_arg'
MergeFrameStep ==
    (merge_mode = "blocks" /\ merge_calls' = merge_calls + 1) =>
       /\ Len(merge_doc') = Len(merge_doc)
       /\ merge_arg' = merge_doc
       /\ \A p \in 1..Len(merge_doc) :
             \E drop_first, drop_last \in {0, 1} :
                PageFrame(merge_doc[p], merge_doc'[p], drop_first, drop_last,
                          p > 1, p < Len(merge_doc))

\* C29: merge_block_page_breaks returns as many pages as it was given and
\* leaves the page lists it was given as they were; only the last block of
\* a page and the first block of the page after it can differ from the
\* input, and a block that is still there keeps its x0, x1, top, bottom and
\* font_size.
MergeFrame == [][MergeFrameStep]_vars

\* C29, its case: after a call a page has lost its first block and is
\* empty, the page before it has another last block, and the first of the
\* two blocks of the first page is there as it was
MergeFrameCase ==
    /\ merge_mode = "blocks"
    /\ merge_calls = 1
    /\ Len(merge_arg) = 3
    /\ merge_arg[2] # <<>>
    /\ merge_doc[2] = <<>>
    /\ merge_doc[1] # merge_arg[1]
    /\ Len(merge_doc[1]) = 2
    /\ merge_doc[1][1] = merge_arg[1][1]

-----------------------------------------------------------------------------
(* BaseProvider.translate: the retry loop.                                 *)

\* The calls of _generate made so far, as positions in the log.
GenerateAt == {i \in 1..Len(tr.events) : tr.events[i].op = "generate"}
SleepAt == {i \in 1..Len(tr.events) : tr.events[i].op = "sleep"}

\* The sample messages that say "not found" or "404", in any case.
NotFoundSamples ==
    { <<"N", "o", "t", " ", "F", "o", "u", "n", "d">>, <<"4", "0", "4">> }

Succeeded(i) == tr.events[i].outcome.kind = "return"
FailedOther(i) ==
    /\ tr.events[i].outcome.kind = "raise"
    /\ tr.events[i].outcome.value \notin NotFoundSamples
FailedNotFound(i) ==
    /\ tr.events[i].outcome.kind = "raise"
    /\ tr.events[i].outcome.value \in NotFoundSamples

\* The number of calls of _generate before position i of the log.
CallsBefore(i) == Cardinality({j \in GenerateAt : j < i})

\* C21: with a model name and max_retries = N >= 1, translate calls
\* _generate at most N times; a call that succeeds is the last call and
\* translate returns its stripped result; when N calls have failed with
\* errors other than "not found", the exception of the N-th call
\* propagates and nothing is returned; time.sleep is called only after a
\* failed attempt that is followed by another attempt, with 2^attempt
\* seconds, never after the last attempt.
RetryLoop ==
    (tr.pc \notin {"idle", "call"} /\ tr.model_name # ""
        /\ tr.max_retries >= 1) =>
       /\ Cardinality(GenerateAt) <= tr.max_retries
       /\ \A i \in GenerateAt :
             Succeeded(i) =>
                /\ i = Len(tr.events)
                /\ tr.pc = "ret"
                /\ tr.result = Strip(tr.events[i].outcome.value)
                /\ \A j \in GenerateAt : j < i => ~Succeeded(j)
       /\ tr.pc = "ret" =>
             (tr.events # <<>> /\ Len(tr.events) \in GenerateAt
                 /\ Succeeded(Len(tr.events)))
       /\ (Cardinality(GenerateAt) = tr.max_retries
              /\ \A i \in GenerateAt : FailedOther(i)) =>
             /\ tr.pc = "raised"
             /\ tr.error = [type |-> "raised by _generate",
                            call |-> Len(tr.events)]
             /\ Len(tr.events) \in GenerateAt
       /\ \A i \in SleepAt :
             /\ i > 1
             /\ i - 1 \in GenerateAt
             /\ FailedOther(i - 1)
             /\ tr.events[i].seconds = Power2(CallsBefore(i) - 1)
             /\ CallsBefore(i) < tr.max_retries
             /\ i = Len(tr.events) => tr.pc = "loop"
             /\ i < Len(tr.events) => i + 1 \in GenerateAt

\* Three attempts have failed: two sleeps of 1 and 2 seconds, and the
\* exception of the third call propagates.
RetryLoopCase ==
    /\ tr.pc = "raised"
    /\ tr.max_retries = 3
    /\ Cardinality(GenerateAt) = 3
    /\ \A i \in GenerateAt : FailedOther(i)
    /\ [i \in 1..Len(tr.events) |->
           IF i \in SleepAt THEN tr.events[i].seconds ELSE 0]
          = <<0, 1, 0, 2, 0>>
    /\ tr.error = [type |-> "raised by _generate", call |-> 5]

\* A second attempt succeeds after one sleep.
RetrySuccessCase ==
    /\ tr.pc = "ret"
    /\ Len(tr.events) = 3
    /\ tr.result = <<"o", "k">>
    /\ tr.events[3].outcome.value = <<" ", "o", "k", "\n">>

\* C22: an error of _generate whose message contains "not found" or "404"
\* makes translate raise ValueError at once: the failed call is the last
\* entry of the log, so no sleep and no further call follow; with an empty
\* model name translate raises ValueError before any call of _generate.
NotFoundStops ==
    /\ (tr.pc \notin {"idle", "call"} /\ tr.model_name # "") =>
          \A i \in GenerateAt :
             FailedNotFound(i) =>
                /\ i = Len(tr.events)
                /\ tr.pc = "raised"
                /\ tr.error = [type |-> "ValueError", call |-> i]
    /\ (tr.pc \notin {"idle", "call"} /\ tr.model_name = "") =>
          /\ tr.pc = "raised"
          /\ tr.error = [type |-> "ValueError", call |-> 0]
          /\ tr.events = <<>>

\* The second of three attempts fails with "404": ValueError, and one
\* sleep only, before that attempt.
NotFoundStopsCase ==
    /\ tr.pc = "raised"
    /\ tr.max_retries = 3
    /\ Len(tr.events) = 3
    /\ FailedNotFound(3)
    /\ tr.events[3].outcome.value = <<"4", "0", "4">>
    /\ tr.error.type = "ValueError"

\* An empty model name: ValueError and no call.
MissingModelCase ==
    /\ tr.pc = "raised"
    /\ tr.model_name = ""
    /\ tr.max_retries = 3
    /\ tr.events = <<>>

-----------------------------------------------------------------------------
(* chunk_text: the chunks and the paragraphs they are made from.           *)

\* The chunk numbered k is made of whole paragraphs (it is no slice of a
\* paragraph longer than max_chars).
WholeChunk(k) == Len(ck.paragraphs[ck.spans[k][1]]) <= ck.max_chars

\* The paragraphs numbered n and n + 1 are in the same chunk.
SameChunk(n) ==
    \E k \in 1..Len(ck.chunks) :
       ck.spans[k][1] <= n /\ n + 1 <= ck.spans[k][2]

ChunksWithinBound ==
    \A k \in 1..Len(ck.chunks) :
       Len(ck.chunks[k]) >= 1 /\ Len(ck.chunks[k]) <= ck.max_chars

\* The statement for every two consecutive paragraphs: whenever the two
\* joined by a blank line are no longer than max_chars, they are in the
\* same chunk.
ChunksJoinWheneverFit ==
    ck.pc = "ret" =>
       /\ ChunksWithinBound
       /\ \A n \in 1..(Len(ck.paragraphs) - 1) :
             Len(ck.paragraphs[n]) + 2 + Len(ck.paragraphs[n + 1])
                   <= ck.max_chars
                => SameChunk(n)

\* C23: for max_chars >= 1 every chunk has between 1 and max_chars
\* characters; the chunks take the paragraphs in order, none left out; a
\* chunk of whole paragraphs is these paragraphs joined by blank lines,
\* and a paragraph starts a new chunk after such a chunk only when the
\* chunk, a blank line and the paragraph together are longer than
\* max_chars; so two consecutive paragraphs of which the first starts a
\* chunk are in the same chunk whenever their joined length is at most
\* max_chars.
ChunksJoinGreedily ==
    (ck.pc \notin {"idle", "call"}) =>
       /\ ChunksWithinBound
       /\ Len(ck.spans) = Len(ck.chunks)
       /\ \A k \in 1..Len(ck.chunks) :
             /\ ck.spans[k][1] <= ck.spans[k][2]
             /\ k = 1 => ck.spans[k][1] = 1
             /\ WholeChunk(k) =>
                   ck.chunks[k] =
                      JoinBlankLine(SubSeq(ck.paragraphs, ck.spans[k][1],
                                           ck.spans[k][2]))
             /\ ~WholeChunk(k) => ck.spans[k][1] = ck.spans[k][2]
             /\ k < Len(ck.chunks) =>
                   /\ ck.spans[k + 1][1] \in {ck.spans[k][2], ck.spans[k][2] + 1}
                   /\ ck.spans[k + 1][1] = ck.spans[k][2] => ~WholeChunk(k)
                   /\ (WholeChunk(k) /\ WholeChunk(k + 1)) =>
                         Len(ck.chunks[k]) + 2
                            + Len(ck.paragraphs[ck.spans[k + 1][1]])
                               > ck.max_chars
       /\ ck.pc = "ret" =>
             /\ (ck.paragraphs = <<>>) = (ck.chunks = <<>>)
             /\ ck.chunks # <<>> =>
                   ck.spans[Len(ck.spans)][2] = Len(ck.paragraphs)
             /\ \A n \in 1..(Len(ck.paragraphs) - 1) :
                   (/\ \E k \in 1..Len(ck.chunks) : ck.spans[k][1] = n
                    /\ Len(ck.paragraphs[n]) + 2 + Len(ck.paragraphs[n + 1])
                          <= ck.max_chars)
                      => SameChunk(n)

\* Three paragraphs of one character and max_chars = 4: the first two are
\* joined, the third starts a new chunk although it would fit with the
\* second.
ChunksJoinGreedilyCase ==
    /\ ck.pc = "ret"
    /\ ck.max_chars = 4
    /\ ck.paragraphs = << <<"a">>, <<"a">>, <<"a">> >>
    /\ ck.chunks = << <<"a", "\n", "\n", "a">>, <<"a">> >>
    /\ ck.spans = << <<1, 2>>, <<3, 3>> >>

\* A paragraph longer than max_chars is cut into slices.
ChunkSlicesCase ==
    /\ ck.pc = "ret"
    /\ ck.max_chars = 2
    /\ ck.text = <<"a", "\n", "\n", "a", "a", " ", "a">>
    /\ ck.chunks = << <<"a">>, <<"a", "a">>, <<" ", "a">> >>

-----------------------------------------------------------------------------
(* The provider registry and the alias table.                              *)

\* C28: no key is at the same time in the provider registry and in the
\* alias table, after any sequence of calls of register_provider,
\* register_alias and unregister_provider.
NamesExclusive == DOMAIN reg.registry \cap DOMAIN reg.aliases = {}

\* A call that registers what is registered already returns and leaves
\* both tables as they are; a call that finds another class or another
\* alias under its key raises ValueError and leaves both tables as they
\* are; register_alias raises ValueError for a key of the registry.
RegisterAgain ==
    [][/\ \A name \in ProviderNames, provider \in ProviderClasses :
            (/\ reg' = register_provider(reg, name, provider)
             /\ RegistryKey(name) \in DOMAIN reg.registry)
               => /\ reg'.registry = reg.registry /\ reg'.aliases = reg.aliases
                  /\ reg'.last.result =
                        IF reg.registry[RegistryKey(name)] = provider
                        THEN "return" ELSE "ValueError"
       /\ \A name \in ProviderNames, provider_cls \in ProviderClasses,
                defaults \in AliasDefaults :
            (/\ reg' = register_alias(reg, name, provider_cls, defaults, "None")
             /\ RegistryKey(name) \in DOMAIN reg.aliases \cup DOMAIN reg.registry)
               => /\ reg'.registry = reg.registry /\ reg'.aliases = reg.aliases
                  /\ reg'.last.result =
                        IF /\ RegistryKey(name) \in DOMAIN reg.aliases
                           /\ reg.aliases[RegistryKey(name)] =
                                 ProviderAlias(provider_cls, defaults, "None")
                        THEN "return" ELSE "ValueError"]_vars

\* register_provider has just returned for a key of the alias table.
ProviderOverAliasCase ==
    /\ reg.pc = "loaded"
    /\ reg.last = [op |-> "register_provider", key |-> <<"x">>,
                   result |-> "return"]
    /\ <<"x">> \in DOMAIN reg.registry \cap DOMAIN reg.aliases

\* create_provider takes the alias and not the provider of the same name.
AliasShadowsProviderCase ==
    /\ reg.pc = "loaded"
    /\ reg.last = [op |-> "create_provider", key |-> <<"x">>,
                   result |-> "ProviderA"]
    /\ <<"x">> \in DOMAIN reg.registry
    /\ reg.registry[<<"x">>] = "ProviderB"

-----------------------------------------------------------------------------
(* main: the chunk budget of --max-chunks.                                 *)

\* The call numbered i of translate_chunk comes before the call numbered j
\* in the order of the document.
EarlierCall(i, j) ==
    LET a == cli.calls[i]
        b == cli.calls[j]
    IN  \/ a.page < b.page
        \/ a.page = b.page /\ a.block < b.block
        \/ a.page = b.page /\ a.block = b.block /\ a.chunk < b.chunk

BudgetReached == cli.max_chunks > 0 /\ Len(cli.calls) >= cli.max_chunks

\* Once the budget is used up, a step makes no call of translate_chunk and
\* takes up no further page or block.
BudgetStep ==
    (cli.pc \notin {"idle", "call"} /\ BudgetReached) =>
       /\ cli'.calls = cli.calls
       /\ cli'.page_index = cli.page_index
       /\ cli'.block_index = cli.block_index

BudgetKept ==
    (cli.pc \notin {"idle", "call"} /\ cli.max_chunks > 0) =>
       /\ Len(cli.calls) <= cli.max_chunks
       /\ \A i, j \in 1..Len(cli.calls) : i < j => EarlierCall(i, j)
       /\ (cli.pc = "ret" /\ cli.mode = "soft") =>
             /\ cli.written.fn = "write_pdf_layout"
             /\ Len(cli.written.pages) = cli.page_index
             /\ cli.written.page_sizes =
                   [p \in 1..Len(cli.written.pages) |-> MainPageSize(p)]

\* C27: with --max-chunks N > 0 at most N calls of translate_chunk are
\* made in total, in soft layout, preserve-pages and plain mode, in the
\* order of the document; once N calls are made no later block or page is
\* taken up; in soft layout mode write_pdf_layout receives the page sizes
\* of the pages produced, as many sizes as pages.
ChunkBudget == [][BudgetStep]_vars /\ []BudgetKept

\* Soft layout with a budget of 2 on two pages: the two chunks of the
\* first block use it up, the second block and the second page are not
\* translated, and one page with one page size is written.
ChunkBudgetCase ==
    /\ cli.pc = "ret"
    /\ cli.mode = "soft"
    /\ cli.max_chunks = 2
    /\ cli.input = << << <<"a", "a", "a">>, <<"a">> >>, << <<"a">> >> >>
    /\ cli.calls = << [page |-> 1, block |-> 1, chunk |-> 1],
                      [page |-> 1, block |-> 1, chunk |-> 2] >>
    /\ cli.written.pages =
          << << <<"T", "a", "a", "\n", "\n", "T", "a">> >> >>
    /\ cli.written.page_sizes = << MainPageSize(1) >>

\* Preserve-pages with a budget of 1: the second chunk of the first page
\* is cut off and the second page is not translated.
PreserveBudgetCase ==
    /\ cli.pc = "ret"
    /\ cli.mode = "preserve"
    /\ cli.max_chunks = 1
    /\ cli.input = << <<"a", "a", "a">>, <<"a">> >>
    /\ Len(cli.calls) = 1
    /\ cli.written.pages = << <<"T", "a", "a">> >>

\* Plain mode with a budget of 3 on a text of four chunks.
PlainBudgetCase ==
    /\ cli.pc = "ret"
    /\ cli.mode = "plain"
    /\ cli.max_chunks = 3
    /\ Len(cli.input) = 7
    /\ Len(cli.calls) = 3

=============================================================================
